---- MODULE Spec2Model ----
(***************************************************************************)
(* Tasker: the relational store (projects, tasks, task_blockers) and the   *)
(* route handlers of routes/tasks.js, routes/blockers.js,                  *)
(* routes/projects.js and routes/export.js that read and write it, and the *)
(* AI proxy of routes/ai.js (breakdown, model listing, logs).              *)
(*                                                                         *)
(* A request is handled in one step: every handler issues its statements   *)
(* on one connection and the store's constraints (foreign keys with        *)
(* ON DELETE CASCADE, UNIQUE, CHECK, NOT NULL, primary keys) are applied   *)
(* as part of the statement that triggers them.                            *)
(*                                                                         *)
(* Identities are UUIDs in the program; here they are positive integers    *)
(* and NoId (0) stands for SQL NULL / a missing JSON field.  An optional   *)
(* request field is a sequence: <<>> when absent, <<v>> when supplied.     *)
(***************************************************************************)
EXTENDS Integers, Sequences, FiniteSets, TLC

\* ---------------------------------------------------------------- bounds
MaxProjects == 2      \* project rows ever created by create-project
MaxTasks    == 3      \* task rows ever created by create-task
MaxBlockers == 2      \* blocker rows held at once in the blocker runs
MaxChain    == 21     \* longest task chain of an import payload
MaxRoundTripCreates == 1  \* task rows created in the round-trip runs
MaxUpdateTasks == 2   \* task rows created in the update runs
MaxTime     == 5      \* the clock value after which no update is made
TicksPerMs  == 2      \* clock ticks in one millisecond
TsBase      == 100    \* the earliest timestamp of an import payload's rows
MaxChunks   == 6      \* pieces a model output is put together from
MaxLogs     == 2      \* ai_logs rows stored or being inserted
MaxIdPieces == 3      \* pieces of a model identifier after its beginning
MaxRequests == 2      \* create-task requests under way at the same time

\* ------------------------------------------------------ program constants
MaxPasses == 20       \* export.js: let maxPasses = 20
DefaultLogLimit == 50 \* ai.js: parseInt(req.query.limit) || 50
MaxLogLimit == 200    \* ai.js: Math.min(..., 200)

NoId     == 0
NullNote == "NULL"     \* SQL NULL in a text column

ProjectIds == 1..MaxProjects
TaskIds    == 1..MaxTasks

VARIABLES
  projects,      \* projects table: id -> [name]
  tasks,         \* tasks table: id -> row
  blockers,      \* task_blockers table: set of rows [task_id, blocker_id, note]
  now,           \* NOW() of the next statement that stamps a task row
  nextTaskId,    \* the next gen_random_uuid() of tasks
  nextProjectId, \* the next gen_random_uuid() of projects
  last,          \* the last request and its response
  prev,          \* the store as it was before the last request
  run,           \* the current run of consecutive creates under one parent
  env,           \* process.env: provider -> API key, NoKey when unset
  upstream,      \* what the provider's API answers to the next call
  ai_logs,       \* ai_logs table: the rows in id order
  exporting,     \* the export handler that runs beside the other requests
  creating,      \* the create-task handlers that run beside each other
  pool,          \* the number of clients checked out of the connection pool
  logging        \* the log INSERTs sent and not yet completed, in order

vars == <<projects, tasks, blockers, now, nextTaskId, nextProjectId, last, prev, run,
          env, upstream, ai_logs, exporting, creating, pool, logging>>

Store == [projects |-> projects, tasks |-> tasks, blockers |-> blockers]

NoRun == [group |-> <<"none", NoId>>, ids |-> <<>>]

\* PROVIDERS = { gemini, openai, anthropic }
Providers == {"gemini", "openai", "anthropic"}

NoKey == ""            \* an API key that is unset, null or the empty string

\* no export under way
NotExporting ==
  [pc |-> "idle", snapshot |-> [projects |-> <<>>, tasks |-> <<>>, blockers |-> {}],
   projects |-> <<>>, tasks |-> <<>>, task_blockers |-> <<>>]

\* the create-task requests that may be under way at once
Requests == 1..MaxRequests

\* no create-task handler under way in a slot
NotCreating ==
  [pc |-> "idle", label |-> "", project_id |-> NoId, parent_id |-> NoId,
   position |-> 0, seen |-> {}, status |-> 0, id |-> NoId, body |-> <<>>]

\* a provider API that answers nothing yet
NoUpstream == [ok |-> FALSE, text |-> <<>>, models |-> <<>>]

\* ------------------------------------------------------------ the tables

\* tasks.parent_id REFERENCES tasks(id) ON DELETE CASCADE: the rows a delete
\* of the rows `del` takes with it, level by level.
CascadeDirectOnly(T, del) ==
  del \cup {i \in DOMAIN T : T[i].parent_id \in del}

RECURSIVE CascadeTasks(_, _)
CascadeTasks(T, del) ==
  LET kids == {i \in DOMAIN T : T[i].parent_id \in del} \ del
  IN  IF kids = {} THEN del ELSE CascadeTasks(T, del \cup kids)

\* task_blockers.task_id / blocker_id REFERENCES tasks(id) ON DELETE CASCADE

\* (first: the cascade of task_id alone)
CascadeBlockersBlockedOnly(B, del) ==
  {b \in B : b.task_id \notin del}

CascadeBlockers(B, del) ==
  {b \in B : b.task_id \notin del /\ b.blocker_id \notin del}

\* DELETE FROM tasks WHERE id IN del, with both cascades
\* (first: the delete when tasks.parent_id does not cascade at all)
DeleteTaskRowsNoCascade(S, del0) ==
  [projects |-> S.projects,
   tasks    |-> [i \in DOMAIN S.tasks \ del0 |-> S.tasks[i]],
   blockers |-> CascadeBlockers(S.blockers, del0)]

DeleteTaskRows(S, del0) ==
  LET del == CascadeTasks(S.tasks, del0)
  IN  [projects |-> S.projects,
       tasks    |-> [i \in DOMAIN S.tasks \ del |-> S.tasks[i]],
       blockers |-> CascadeBlockers(S.blockers, del)]

\* DELETE FROM projects WHERE id = p; tasks.project_id is ON DELETE CASCADE
\* (first: the delete when tasks.parent_id does not cascade further)
DeleteProjectRowsRootsOnly(S, p) ==
  LET del == {i \in DOMAIN S.tasks : S.tasks[i].project_id = p}
  IN  [projects |-> [q \in DOMAIN S.projects \ {p} |-> S.projects[q]],
       tasks    |-> [i \in DOMAIN S.tasks \ del |-> S.tasks[i]],
       blockers |-> CascadeBlockers(S.blockers, del)]

DeleteProjectRows(S, p) ==
  LET S1 == DeleteTaskRows(S, {i \in DOMAIN S.tasks : S.tasks[i].project_id = p})
  IN  [S1 EXCEPT !.projects = [q \in DOMAIN S.projects \ {p} |-> S.projects[q]]]

\* ------------------------------------------------------------- requests

Init ==
  /\ projects = <<>>
  /\ tasks = <<>>
  /\ blockers = {}
  /\ now = 1
  /\ nextTaskId = 1
  /\ nextProjectId = 1
  /\ last = [op |-> "none", status |-> 0]
  /\ prev = [projects |-> <<>>, tasks |-> <<>>, blockers |-> {}]
  /\ run = NoRun
  /\ env = [p \in Providers |-> NoKey]
  /\ upstream = NoUpstream
  /\ ai_logs = <<>>
  /\ exporting = NotExporting
  /\ creating = [r \in Requests |-> NotCreating]
  /\ pool = 0
  /\ logging = <<>>

Respond(r) ==
  /\ last' = r
  /\ prev' = Store

\* POST /api/projects
CreateProject(name) ==
  /\ nextProjectId <= MaxProjects
  /\ IF name = ""
       THEN /\ Respond([op |-> "createProject", status |-> 400])
            /\ UNCHANGED <<projects, nextProjectId>>
       ELSE /\ projects' = (nextProjectId :> [name |-> name]) @@ projects
            /\ nextProjectId' = nextProjectId + 1
            /\ Respond([op |-> "createProject", status |-> 201, id |-> nextProjectId])
  /\ run' = NoRun
  /\ UNCHANGED <<tasks, blockers, now, nextTaskId, env, upstream, ai_logs, exporting,
                 creating, pool, logging>>

\* DELETE /api/projects/:id
DeleteProject(id) ==
  /\ IF id \notin DOMAIN projects
       THEN /\ Respond([op |-> "deleteProject", id |-> id, status |-> 404])
            /\ UNCHANGED <<projects, tasks, blockers>>
       ELSE LET S1 == DeleteProjectRows(Store, id)
            IN  /\ projects' = S1.projects
                /\ tasks' = S1.tasks
                /\ blockers' = S1.blockers
                /\ Respond([op |-> "deleteProject", id |-> id, status |-> 204])
  /\ run' = NoRun
  /\ UNCHANGED <<now, nextTaskId, nextProjectId, env, upstream, ai_logs, exporting,
                 creating, pool, logging>>

\* ----------------------------------------------------- routes/tasks.js

\* The rows of the recursive query task_tree: the anchor rows at depth 0,
\* then the rows joined on parent_id, one level at a time (UNION ALL).
AnchorAnyRoot(T, projectId) ==
  {i \in DOMAIN T : T[i].parent_id = NoId}

Anchor(T, projectId) ==
  {i \in DOMAIN T : T[i].project_id = projectId /\ T[i].parent_id = NoId}

RECURSIVE Recurse(_, _, _)
Recurse(T, level, depth) ==
  IF level = {} THEN {}
  ELSE {[id |-> i, depth |-> depth] : i \in level}
       \cup Recurse(T, {i \in DOMAIN T : T[i].parent_id \in level}, depth + 1)

TaskTreeRowsFlat(T, projectId) ==
  {[id |-> i, depth |-> 0] : i \in Anchor(T, projectId)}
  \cup {[id |-> i, depth |-> 1] :
          i \in {j \in DOMAIN T : T[j].parent_id \in Anchor(T, projectId)}}

TaskTreeRows(T, projectId) == Recurse(T, Anchor(T, projectId), 0)

\* (first: ORDER BY depth, position)
RowLeqNoTieBreak(T, a, b) ==
  \/ a.depth < b.depth
  \/ /\ a.depth = b.depth
     /\ T[a.id].position <= T[b.id].position

\* ORDER BY depth, position, created_at
RowLeq(T, a, b) ==
  \/ a.depth < b.depth
  \/ /\ a.depth = b.depth
     /\ \/ T[a.id].position < T[b.id].position
        \/ /\ T[a.id].position = T[b.id].position
           /\ T[a.id].created_at <= T[b.id].created_at

\* every order the query may return the rows in: rows that agree on the
\* whole sort key come in either order
OrderedRows(T, R) ==
  {s \in [1..Cardinality(R) -> R] :
     /\ \A i, j \in 1..Cardinality(R) : i < j => s[i] # s[j] /\ RowLeq(T, s[i], s[j])}

\* Build nested tree from flat list: taskMap (the children lists) and roots

FoldChildren(T, rows, id) ==
  SelectSeq(rows, LAMBDA r : T[r.id].parent_id # NoId /\ T[r.id].parent_id = id)

FoldRoots(T, rows) ==
  SelectSeq(rows, LAMBDA r : T[r.id].parent_id = NoId)

Ids(rows) == [k \in 1..Len(rows) |-> rows[k].id]

BuildTree(T, rows) ==
  LET mapIds == {rows[k].id : k \in 1..Len(rows)}
  IN  [roots    |-> Ids(FoldRoots(T, rows)),
       children |-> [i \in mapIds |-> Ids(FoldChildren(T, rows, i))],
       depth    |-> [i \in mapIds |-> (CHOOSE r \in {rows[k] : k \in 1..Len(rows)} : r.id = i).depth]]

\* GET /api/projects/:projectId/tasks
GetTaskTree(projectId) ==
  /\ \E rows \in OrderedRows(tasks, TaskTreeRows(tasks, projectId)) :
       Respond([op |-> "getTaskTree", projectId |-> projectId, status |-> 200,
                body |-> BuildTree(tasks, rows)])
  /\ run' = NoRun
  /\ UNCHANGED <<projects, tasks, blockers, now, nextTaskId, nextProjectId, env, upstream, ai_logs, exporting,
                 creating, pool, logging>>

SetMax(S) == CHOOSE m \in S : \A x \in S : x <= m

\* SELECT COALESCE(MAX(position), -1) + 1 AS next_pos FROM tasks WHERE ...
SiblingsOfParent(T, parent_id) ==
  {i \in DOMAIN T : T[i].parent_id = parent_id}

\* project_id = $1 is never true of a NULL $1
SiblingsOfProject(T, project_id) ==
  {i \in DOMAIN T : project_id # NoId /\ T[i].project_id = project_id
                    /\ T[i].parent_id = NoId}

Siblings(T, project_id, parent_id) ==
  IF parent_id # NoId THEN SiblingsOfParent(T, parent_id)
                      ELSE SiblingsOfProject(T, project_id)

\* (second: the number of siblings)
NextPosCount(T, sibs) == Cardinality(sibs)

NextPosNoIncrement(T, sibs) ==
  IF sibs = {} THEN 0 ELSE SetMax({T[i].position : i \in sibs})

NextPos(T, sibs) ==
  IF sibs = {} THEN 0 ELSE SetMax({T[i].position : i \in sibs}) + 1

\* the sibling group a create request adds to
Group(project_id, parent_id) ==
  IF parent_id # NoId THEN <<"parent", parent_id>>
  ELSE IF project_id # NoId THEN <<"project", project_id>>
  ELSE <<"none", NoId>>

\* POST /api/tasks
CreateTask(label, project_id, parent_id) ==
  /\ nextTaskId <= MaxTasks
  /\ IF label = ""
       THEN /\ Respond([op |-> "createTask", status |-> 400])
            /\ run' = NoRun
            /\ UNCHANGED <<tasks, now, nextTaskId>>
     ELSE IF \/ (project_id # NoId /\ project_id \notin DOMAIN projects)
             \/ (parent_id # NoId /\ parent_id \notin DOMAIN tasks)
       THEN \* the INSERT violates a foreign key
            /\ Respond([op |-> "createTask", status |-> 500])
            /\ run' = NoRun
            /\ UNCHANGED <<tasks, now, nextTaskId>>
     ELSE LET sibs == Siblings(tasks, project_id, parent_id)
              row  == [project_id |-> project_id, parent_id |-> parent_id,
                       label |-> label, position |-> NextPos(tasks, sibs),
                       is_expanded |-> FALSE,
                       created_at |-> now, updated_at |-> now]
              g    == Group(project_id, parent_id)
          IN  /\ tasks' = (nextTaskId :> row) @@ tasks
              /\ nextTaskId' = nextTaskId + 1
              /\ now' = now + 1
              /\ Respond([op |-> "createTask", status |-> 201, id |-> nextTaskId,
                          body |-> row])
              /\ run' = IF g[1] = "none" THEN NoRun
                        ELSE IF run.group = g
                               THEN [run EXCEPT !.ids = Append(@, nextTaskId)]
                        ELSE IF sibs = {}
                               THEN [group |-> g, ids |-> <<nextTaskId>>]
                        ELSE NoRun
  /\ UNCHANGED <<projects, blockers, nextProjectId, env, upstream, ai_logs, exporting,
                 creating, pool, logging>>

\* POST /api/tasks beside other requests, statement by statement: the handler
\* runs its two queries on the pool without a transaction, so other requests'
\* statements come between them.

\* const { label, project_id, parent_id } = req.body; if (!label) return 400
CreateTaskBegin(r, label, project_id, parent_id) ==
  /\ creating[r].pc = "idle"
  /\ creating' = [creating EXCEPT ![r] =
                    IF label = ""
                      THEN [NotCreating EXCEPT !.pc = "done", !.status = 400]
                      ELSE [NotCreating EXCEPT !.pc = "begun", !.label = label,
                                               !.project_id = project_id,
                                               !.parent_id = parent_id]]
  /\ UNCHANGED <<projects, tasks, blockers, now, nextTaskId, nextProjectId,
                 last, prev, run, env, upstream, ai_logs, exporting, pool, logging>>

\* const position = siblingQuery.rows[0].next_pos; seen: the rows the query read
CreateTaskSelect(r) ==
  /\ creating[r].pc = "begun"
  /\ LET c == creating[r]
     IN  creating' = [creating EXCEPT ![r] =
                        [c EXCEPT !.pc = "selected",
                                  !.position = NextPos(tasks,
                                                 Siblings(tasks, c.project_id, c.parent_id)),
                                  !.seen = DOMAIN tasks]]
  /\ UNCHANGED <<projects, tasks, blockers, now, nextTaskId, nextProjectId,
                 last, prev, run, env, upstream, ai_logs, exporting, pool, logging>>

\* (first: with a UNIQUE (parent_id, position) that the table does not have)
TaskInsertFailsUniquePosition(P, T, row) ==
  \/ (row.project_id # NoId /\ row.project_id \notin DOMAIN P)
  \/ (row.parent_id # NoId /\ row.parent_id \notin DOMAIN T)
  \/ \E i \in DOMAIN T : T[i].parent_id = row.parent_id /\ T[i].position = row.position

\* the constraints of the tasks table an INSERT can violate: its foreign keys
TaskInsertFails(P, T, row) ==
  \/ (row.project_id # NoId /\ row.project_id \notin DOMAIN P)
  \/ (row.parent_id # NoId /\ row.parent_id \notin DOMAIN T)

\* INSERT INTO tasks (label, project_id, parent_id, position) ... RETURNING *;
\* res.status(201).json(rows[0]), or the catch block's 500
CreateTaskInsert(r) ==
  /\ creating[r].pc = "selected"
  /\ nextTaskId <= MaxTasks
  /\ LET c   == creating[r]
         row == [project_id |-> c.project_id, parent_id |-> c.parent_id,
                 label |-> c.label, position |-> c.position,
                 is_expanded |-> FALSE, created_at |-> now, updated_at |-> now]
     IN  IF TaskInsertFails(projects, tasks, row)
           THEN /\ creating' = [creating EXCEPT ![r] = [c EXCEPT !.pc = "done",
                                                                !.status = 500]]
                /\ Respond([op |-> "createTask", status |-> 500])
                /\ UNCHANGED <<tasks, now, nextTaskId>>
           ELSE /\ tasks' = (nextTaskId :> row) @@ tasks
                /\ nextTaskId' = nextTaskId + 1
                /\ now' = now + 1
                /\ creating' = [creating EXCEPT ![r] =
                                  [c EXCEPT !.pc = "done", !.status = 201,
                                            !.id = nextTaskId, !.body = <<row>>]]
                /\ Respond([op |-> "createTask", status |-> 201, id |-> nextTaskId,
                            body |-> row])
  /\ run' = NoRun
  /\ UNCHANGED <<projects, blockers, nextProjectId, env, upstream, ai_logs,
                 exporting, pool, logging>>

\* if (rows.length === 0) / if (result.rowCount === 0) return 404
RowCountStatusAlwaysOk(rowCount, ok) == ok

RowCountStatus(rowCount, ok) == IF rowCount = 0 THEN 404 ELSE ok

\* COALESCE($n, column)

Coalesce(x, old) == IF x = <<>> THEN old ELSE x[1]

\* the row an update leaves when a supplied 0 or false counts as absent
UpdatedRowTruthy(row, label, position, is_expanded, t) ==
  [row EXCEPT !.label = Coalesce(label, @),
              !.position = IF position = <<0>> THEN @ ELSE Coalesce(position, @),
              !.is_expanded = IF is_expanded = <<FALSE>> THEN @ ELSE Coalesce(is_expanded, @),
              !.updated_at = t]

UpdatedRow(row, label, position, is_expanded, t) ==
  [row EXCEPT !.label = Coalesce(label, @),
              !.position = Coalesce(position, @),
              !.is_expanded = Coalesce(is_expanded, @),
              !.updated_at = t]

\* PUT /api/tasks/:id
UpdateTask(id, label, position, is_expanded) ==
  /\ IF id \notin DOMAIN tasks
       THEN UNCHANGED <<tasks, now>>
       ELSE /\ tasks' = [tasks EXCEPT ![id] =
                           UpdatedRow(@, label, position, is_expanded, now)]
            /\ now' = now + 1
  /\ Respond([op |-> "updateTask", id |-> id,
              status |-> RowCountStatus(Cardinality({id} \cap DOMAIN tasks), 200),
              label |-> label, position |-> position, is_expanded |-> is_expanded])
  /\ run' = NoRun
  /\ UNCHANGED <<projects, blockers, nextTaskId, nextProjectId, env, upstream, ai_logs, exporting,
                 creating, pool, logging>>

\* DELETE /api/tasks/:id
DeleteTask(id) ==
  /\ LET S1 == DeleteTaskRows(Store, {id} \cap DOMAIN tasks)
     IN  /\ projects' = S1.projects
         /\ tasks' = S1.tasks
         /\ blockers' = S1.blockers
  /\ Respond([op |-> "deleteTask", id |-> id,
              status |-> RowCountStatus(Cardinality({id} \cap DOMAIN tasks), 204)])
  /\ run' = NoRun
  /\ UNCHANGED <<now, nextTaskId, nextProjectId, env, upstream, ai_logs, exporting,
                 creating, pool, logging>>

\* -------------------------------------------------- routes/blockers.js

HasPair(B, t, b) == \E r \in B : r.task_id = t /\ r.blocker_id = b

\* The outcome of INSERT INTO task_blockers (task_id, blocker_id, note):
\* the row constraint CHECK(task_id != blocker_id) is evaluated on the new
\* row first, then the UNIQUE(task_id, blocker_id) index, and the two
\* foreign keys when the statement ends.
InsertBlockerNoCheck(S, t, b) ==
  IF HasPair(S.blockers, t, b) THEN "23505"
  ELSE IF t \notin DOMAIN S.tasks \/ b \notin DOMAIN S.tasks THEN "23503"
  ELSE "ok"

InsertBlockerNoUnique(S, t, b) ==
  IF t = b THEN "23514"
  ELSE IF t \notin DOMAIN S.tasks \/ b \notin DOMAIN S.tasks THEN "23503"
  ELSE "ok"

InsertBlockerCode(S, t, b) ==
  IF t = b THEN "23514"
  ELSE IF HasPair(S.blockers, t, b) THEN "23505"
  ELSE IF t \notin DOMAIN S.tasks \/ b \notin DOMAIN S.tasks THEN "23503"
  ELSE "ok"

\* the catch block of add-blocker: error code -> HTTP status
AddBlockerStatus(code) ==
  IF code = "ok" THEN 201
  ELSE IF code = "23505" THEN 409
  ELSE IF code = "23514" THEN 400
  ELSE 500

\* note || null
NoteOrNull(note) == IF note = "" THEN NullNote ELSE note

\* POST /api/tasks/:taskId/blockers
AddBlocker(taskId, blocker_id, note) ==
  /\ IF blocker_id = NoId
       THEN /\ Respond([op |-> "addBlocker", taskId |-> taskId,
                        blocker_id |-> blocker_id, status |-> 400])
            /\ UNCHANGED blockers
       ELSE LET code == InsertBlockerCode(Store, taskId, blocker_id)
            IN  /\ code = "ok" => Cardinality(blockers) < MaxBlockers
                /\ blockers' =
                     IF code = "ok"
                       THEN blockers \cup {[task_id |-> taskId, blocker_id |-> blocker_id,
                                            note |-> NoteOrNull(note)]}
                       ELSE blockers
                /\ Respond([op |-> "addBlocker", taskId |-> taskId,
                            blocker_id |-> blocker_id, status |-> AddBlockerStatus(code)])
  /\ run' = NoRun
  /\ UNCHANGED <<projects, tasks, now, nextTaskId, nextProjectId, env, upstream, ai_logs, exporting,
                 creating, pool, logging>>

\* DELETE /api/tasks/:taskId/blockers/:blockerId
RemoveBlocker(taskId, blockerId) ==
  /\ LET hit == {r \in blockers : r.task_id = taskId /\ r.blocker_id = blockerId}
     IN  /\ blockers' = blockers \ hit
         /\ Respond([op |-> "removeBlocker", taskId |-> taskId, blockerId |-> blockerId,
                     status |-> RowCountStatus(Cardinality(hit), 204)])
  /\ run' = NoRun
  /\ UNCHANGED <<projects, tasks, now, nextTaskId, nextProjectId, env, upstream, ai_logs, exporting,
                 creating, pool, logging>>

\* ---------------------------------------------------- routes/export.js

\* A timestamptz column read into a JavaScript Date and written as an ISO
\* string keeps milliseconds only.
JsonTs(t) == t - (t % TicksPerMs)

\* every arrangement of a finite set as a sequence
Arrangements(S) ==
  {s \in [1..Cardinality(S) -> S] : \A i, j \in 1..Cardinality(S) : i # j => s[i] # s[j]}

\* SELECT * FROM tasks ORDER BY created_at: ascending by created_at, rows
\* with equal created_at in any order
RECURSIVE OrderedByCreatedAt(_, _)
OrderedByCreatedAt(T, ids) ==
  IF ids = {} THEN {<<>>}
  ELSE LET m == CHOOSE x \in {T[i].created_at : i \in ids} :
                  \A i \in ids : x <= T[i].created_at
           G == {i \in ids : T[i].created_at = m}
       IN  {g \o rest : g \in Arrangements(G), rest \in OrderedByCreatedAt(T, ids \ G)}

ExportTaskRow(T, i) ==
  [id |-> i, project_id |-> T[i].project_id, parent_id |-> T[i].parent_id,
   label |-> T[i].label, position |-> T[i].position, is_expanded |-> T[i].is_expanded,
   created_at |-> JsonTs(T[i].created_at), updated_at |-> JsonTs(T[i].updated_at)]

\* the bodies GET /api/export may answer with
Exports(S) ==
  {[hasProjects   |-> TRUE,
    projects      |-> [k \in 1..Len(ps) |-> [id |-> ps[k], name |-> S.projects[ps[k]].name]],
    tasks         |-> [k \in 1..Len(ts) |-> ExportTaskRow(S.tasks, ts[k])],
    task_blockers |-> bs] :
     ps \in Arrangements(DOMAIN S.projects),
     ts \in OrderedByCreatedAt(S.tasks, DOMAIN S.tasks),
     bs \in Arrangements(S.blockers)}

\* GET /api/export
Export ==
  /\ \E body \in Exports(Store) :
       Respond([op |-> "export", status |-> 200, body |-> body])
  /\ run' = NoRun
  /\ UNCHANGED <<projects, tasks, blockers, now, nextTaskId, nextProjectId, env, upstream, ai_logs, exporting,
                 creating, pool, logging>>

\* GET /api/export beside other requests, statement by statement.  Under
\* REPEATABLE READ the transaction's first query takes the snapshot that all
\* its queries read; under READ COMMITTED each query would read the store as
\* it is.
ReadCommitted(snapshot, S) == S

RepeatableRead(snapshot, S) == snapshot

\* const client = await pool.connect();
\* BEGIN TRANSACTION ISOLATION LEVEL REPEATABLE READ
ExportBegin ==
  /\ exporting.pc = "idle"
  /\ exporting' = [NotExporting EXCEPT !.pc = "begun"]
  /\ pool' = pool + 1
  /\ UNCHANGED <<projects, tasks, blockers, now, nextTaskId, nextProjectId,
                 last, prev, run, env, upstream, ai_logs, creating, logging>>

\* SELECT * FROM projects ORDER BY created_at
ExportSelectProjects ==
  /\ exporting.pc = "begun"
  /\ \E ps \in Arrangements(DOMAIN projects) :
       exporting' = [exporting EXCEPT
                       !.pc = "projects",
                       !.snapshot = Store,
                       !.projects = [k \in 1..Len(ps) |->
                                       [id |-> ps[k], name |-> projects[ps[k]].name]]]
  /\ UNCHANGED <<projects, tasks, blockers, now, nextTaskId, nextProjectId,
                 last, prev, run, env, upstream, ai_logs,
                 creating, pool, logging>>

\* SELECT * FROM tasks ORDER BY created_at
ExportSelectTasks ==
  /\ exporting.pc = "projects"
  /\ LET S == RepeatableRead(exporting.snapshot, Store)
     IN  \E ts \in OrderedByCreatedAt(S.tasks, DOMAIN S.tasks) :
           exporting' = [exporting EXCEPT
                           !.pc = "tasks",
                           !.tasks = [k \in 1..Len(ts) |-> ExportTaskRow(S.tasks, ts[k])]]
  /\ UNCHANGED <<projects, tasks, blockers, now, nextTaskId, nextProjectId,
                 last, prev, run, env, upstream, ai_logs,
                 creating, pool, logging>>

\* SELECT * FROM task_blockers ORDER BY created_at
ExportSelectBlockers ==
  /\ exporting.pc = "tasks"
  /\ LET S == RepeatableRead(exporting.snapshot, Store)
     IN  \E bs \in Arrangements(S.blockers) :
           exporting' = [exporting EXCEPT !.pc = "blockers", !.task_blockers = bs]
  /\ UNCHANGED <<projects, tasks, blockers, now, nextTaskId, nextProjectId,
                 last, prev, run, env, upstream, ai_logs,
                 creating, pool, logging>>

\* COMMIT; res.json({ version, exported_at, projects, tasks, task_blockers });
\* finally { client.release() }
ExportRespond ==
  /\ exporting.pc = "blockers"
  /\ Respond([op |-> "export", status |-> 200,
              body |-> [hasProjects |-> TRUE, projects |-> exporting.projects,
                        tasks |-> exporting.tasks,
                        task_blockers |-> exporting.task_blockers],
              snapshot |-> exporting.snapshot])
  /\ exporting' = NotExporting
  /\ pool' = pool - 1
  /\ run' = NoRun
  /\ UNCHANGED <<projects, tasks, blockers, now, nextTaskId, nextProjectId,
                 env, upstream, ai_logs,
                 creating, logging>>

\* a query of the export throws: ROLLBACK; res.status(500); and, as after the
\* response above, finally { client.release() }
ExportFail ==
  /\ exporting.pc \in {"begun", "projects", "tasks", "blockers"}
  /\ Respond([op |-> "export", status |-> 500,
              body |-> [hasProjects |-> TRUE, projects |-> <<>>, tasks |-> <<>>,
                        task_blockers |-> <<>>],
              snapshot |-> [projects |-> <<>>, tasks |-> <<>>, blockers |-> {}]])
  /\ exporting' = NotExporting
  /\ pool' = pool - 1
  /\ run' = NoRun
  /\ UNCHANGED <<projects, tasks, blockers, now, nextTaskId, nextProjectId,
                 env, upstream, ai_logs, creating, logging>>

\* The store an import works on inside its transaction; ok is FALSE once a
\* statement has thrown, inserted is the handler's Set of inserted task ids
\* (order: the same ids in the order of their INSERTs), passes the number of
\* passes of the multi-pass insert that ran and left the length of remaining
\* after them.
Cleared ==
  [projects |-> <<>>, tasks |-> <<>>, blockers |-> {}, inserted |-> {}, ok |-> TRUE,
   order |-> <<>>, passes |-> 0, left |-> 0]

\* INSERT INTO projects (id, name, ...): primary key, name NOT NULL
InsertProject(W, p) ==
  IF ~W.ok THEN W
  ELSE IF p.id \in DOMAIN W.projects \/ p.name = NullNote THEN [W EXCEPT !.ok = FALSE]
  ELSE [W EXCEPT !.projects = (p.id :> [name |-> p.name]) @@ @]

RECURSIVE InsertProjects(_, _)
InsertProjects(W, ps) ==
  IF ps = <<>> THEN W ELSE InsertProjects(InsertProject(W, Head(ps)), Tail(ps))

\* the comparator of the sort: null parent_id first, then by created_at
SortsBefore(a, b) ==
  \/ a.parent_id = NoId /\ b.parent_id # NoId
  \/ /\ (a.parent_id = NoId) = (b.parent_id = NoId)
     /\ a.created_at < b.created_at

\* Array.prototype.sort is stable: x goes before the first row it sorts before
InsertSorted(s, x) ==
  LET later == {k \in 1..Len(s) : SortsBefore(x, s[k])}
      at    == IF later = {} THEN Len(s) + 1
               ELSE CHOOSE k \in later : \A j \in later : k <= j
  IN  SubSeq(s, 1, at - 1) \o <<x>> \o SubSeq(s, at, Len(s))

RECURSIVE SortTasks(_)
SortTasks(ts) ==
  IF ts = <<>> THEN <<>>
  ELSE InsertSorted(SortTasks(SubSeq(ts, 1, Len(ts) - 1)), ts[Len(ts)])

\* INSERT INTO tasks (id, project_id, parent_id, label, ...): primary key,
\* both foreign keys, label NOT NULL
InsertTask(W, t) ==
  IF \/ t.id \in DOMAIN W.tasks
     \/ (t.project_id # NoId /\ t.project_id \notin DOMAIN W.projects)
     \/ (t.parent_id # NoId /\ t.parent_id \notin DOMAIN W.tasks)
     \/ t.label = NullNote
    THEN [W EXCEPT !.ok = FALSE]
    ELSE [W EXCEPT !.tasks = (t.id :> [project_id |-> t.project_id,
                                       parent_id |-> t.parent_id, label |-> t.label,
                                       position |-> t.position,
                                       is_expanded |-> t.is_expanded,
                                       created_at |-> t.created_at,
                                       updated_at |-> t.updated_at]) @@ @,
                    !.inserted = @ \cup {t.id},
                    !.order = Append(@, t.id)]

\* one pass of the multi-pass insert: for (const t of remaining)
RECURSIVE ImportPass(_, _, _)
ImportPass(W, remaining, next) ==
  IF ~W.ok \/ remaining = <<>> THEN [w |-> W, next |-> next]
  ELSE LET t == Head(remaining)
       IN  IF t.parent_id = NoId \/ t.parent_id \in W.inserted
             THEN ImportPass(InsertTask(W, t), Tail(remaining), next)
             ELSE ImportPass(W, Tail(remaining), Append(next, t))

\* while (remaining.length > 0 && maxPasses-- > 0)
RECURSIVE ImportPasses(_, _, _)
ImportPasses(W, remaining, maxPasses) ==
  IF W.ok /\ remaining # <<>> /\ maxPasses > 0
    THEN LET r == ImportPass(W, remaining, <<>>)
         IN  ImportPasses([r.w EXCEPT !.passes = @ + 1], r.next, maxPasses - 1)
    ELSE [w |-> [W EXCEPT !.left = Len(remaining)], remaining |-> remaining]

\* if (remaining.length > 0) throw (first: the insert that does not throw)
InsertTasksNoThrow(W, ts) ==
  IF ~W.ok THEN W
  ELSE ImportPasses(W, SortTasks(ts), MaxPasses).w

InsertTasks(W, ts) ==
  IF ~W.ok THEN W
  ELSE LET r == ImportPasses(W, SortTasks(ts), MaxPasses)
       IN  IF r.remaining # <<>> THEN [r.w EXCEPT !.ok = FALSE] ELSE r.w

\* INSERT INTO task_blockers (id, task_id, blocker_id, note, created_at)
InsertBlocker(W, b) ==
  IF ~W.ok THEN W
  ELSE IF InsertBlockerCode(W, b.task_id, b.blocker_id) # "ok" THEN [W EXCEPT !.ok = FALSE]
  ELSE [W EXCEPT !.blockers = @ \cup {[task_id |-> b.task_id, blocker_id |-> b.blocker_id,
                                       note |-> b.note]}]

RECURSIVE InsertBlockers(_, _)
InsertBlockers(W, bs) ==
  IF bs = <<>> THEN W ELSE InsertBlockers(InsertBlocker(W, Head(bs)), Tail(bs))

\* BEGIN; the three DELETEs; the inserts
ImportRun(body) ==
  InsertBlockers(InsertTasks(InsertProjects(Cleared, body.projects), body.tasks),
                 body.task_blockers)

\* COMMIT, or ROLLBACK in the catch block
ImportOutcomeNoRollback(S, W) ==
  [projects |-> W.projects, tasks |-> W.tasks, blockers |-> W.blockers]

\* (second: the DELETEs sent before BEGIN, so that ROLLBACK undoes the
\* inserts alone)
ImportOutcomeKeepsCleared(S, W) ==
  IF W.ok THEN [projects |-> W.projects, tasks |-> W.tasks, blockers |-> W.blockers]
  ELSE [projects |-> <<>>, tasks |-> <<>>, blockers |-> {}]

ImportOutcome(S, W) ==
  IF W.ok THEN [projects |-> W.projects, tasks |-> W.tasks, blockers |-> W.blockers]
  ELSE S

\* (first: client.release() after the COMMIT, at the end of the try block)
ImportReleasesAfterCommit(clients, path) ==
  IF path = "committed" THEN clients ELSE 0

\* finally { if (client) client.release(); }: the releases of a handler that
\* took `clients` clients from the pool, whichever way it left the try block
ImportReleases(clients, path) == clients

\* POST /api/export (the import), with client = await pool.connect() done
Import(body) ==
  /\ IF ~body.hasProjects
       THEN /\ Respond([op |-> "import", body |-> body, status |-> 400])
            /\ pool' = pool + 1 - ImportReleases(1, "rejected")
            /\ UNCHANGED <<projects, tasks, blockers>>
       ELSE LET W  == ImportRun(body)
                S1 == ImportOutcome(Store, W)
            IN  /\ projects' = S1.projects
                /\ tasks' = S1.tasks
                /\ blockers' = S1.blockers
                /\ pool' = pool + 1 - ImportReleases(1, IF W.ok THEN "committed"
                                                                ELSE "rolledBack")
                /\ Respond([op |-> "import", body |-> body,
                            status |-> IF W.ok THEN 200 ELSE 500,
                            order |-> W.order, passes |-> W.passes, left |-> W.left])
  /\ run' = NoRun
  /\ UNCHANGED <<now, nextTaskId, nextProjectId, env, upstream, ai_logs, exporting,
                 creating, logging>>

\* POST /api/export (the import), with pool.connect() rejecting: client stays
\* undefined, the catch block answers 500 and nothing is released
ImportNoConnection(body) ==
  /\ Respond([op |-> "import", body |-> body, status |-> 500,
              order |-> <<>>, passes |-> 0, left |-> 0])
  /\ pool' = pool + 0 - ImportReleases(0, "rolledBack")
  /\ run' = NoRun
  /\ UNCHANGED <<projects, tasks, blockers, now, nextTaskId, nextProjectId,
                 env, upstream, ai_logs, exporting, creating, logging>>

\* ---------------------------------------------------------- routes/ai.js
\* A text is a sequence of characters (one-character strings).

SetMin(S) == CHOOSE m \in S : \A x \in S : m <= x

\* text.match(/\[[\s\S]*\]/): <<>> for null, else <<the matched span>>.  The
\* match starts at the first "[" that has a "]" after it and, the star being
\* greedy, ends at the last "]" of the text.
MatchWholeText(text) ==
  IF \E i \in DOMAIN text : text[i] \in {"[", "]"} THEN <<text>> ELSE <<>>

MatchBracketSpan(text) ==
  LET opens  == {i \in DOMAIN text : text[i] = "["}
      closes == {j \in DOMAIN text : text[j] = "]" /\ j > SetMin(opens)}
  IN  IF opens = {} THEN <<>>
      ELSE IF closes = {} THEN <<>>
      ELSE <<SubSeq(text, SetMin(opens), SetMax(closes))>>

\* JSON.parse, for the JSON these texts can hold: arrays, strings without
\* escapes, and white space.  A value is a record [kind, str, items].
JsonString(chars) == [kind |-> "string", str |-> chars, items |-> <<>>]
JsonArray(items)  == [kind |-> "array", str |-> <<>>, items |-> items]
ParseFail == [ok |-> FALSE, value |-> JsonArray(<<>>), next |-> 0]

RECURSIVE SkipWs(_, _)
SkipWs(s, i) == IF i <= Len(s) /\ s[i] = " " THEN SkipWs(s, i + 1) ELSE i

RECURSIVE ParseValue(_, _)
RECURSIVE ParseElements(_, _, _)
ParseValue(s, i) ==
  IF i > Len(s) THEN ParseFail
  ELSE IF s[i] = "\""
    THEN LET ends == {j \in (i + 1)..Len(s) : s[j] = "\""}
         IN  IF ends = {} THEN ParseFail
             ELSE [ok |-> TRUE,
                   value |-> JsonString(SubSeq(s, i + 1, SetMin(ends) - 1)),
                   next |-> SetMin(ends) + 1]
  ELSE IF s[i] = "["
    THEN LET k == SkipWs(s, i + 1)
         IN  IF k <= Len(s) /\ s[k] = "]"
               THEN [ok |-> TRUE, value |-> JsonArray(<<>>), next |-> k + 1]
               ELSE ParseElements(s, k, <<>>)
  ELSE ParseFail

ParseElements(s, i, acc) ==
  LET v == ParseValue(s, i)
      k == SkipWs(s, v.next)
  IN  IF ~v.ok \/ k > Len(s) THEN ParseFail
      ELSE IF s[k] = ","
        THEN ParseElements(s, SkipWs(s, k + 1), Append(acc, v.value))
      ELSE IF s[k] = "]"
        THEN [ok |-> TRUE, value |-> JsonArray(Append(acc, v.value)), next |-> k + 1]
      ELSE ParseFail

JsonParse(s) ==
  LET v == ParseValue(s, SkipWs(s, 1))
  IN  IF v.ok /\ SkipWs(s, v.next) = Len(s) + 1 THEN v ELSE ParseFail

\* the string literals of isRelevantModel, as characters
GEMINI_DASH  == <<"g", "e", "m", "i", "n", "i", "-">>
MODELS_SLASH == <<"m", "o", "d", "e", "l", "s", "/">>
CLAUDE_DASH  == <<"c", "l", "a", "u", "d", "e", "-">>

\* const allowed = ['gpt-5', 'gpt-4.1']
OpenAiAllowed ==
  {<<"g", "p", "t", "-", "5">>,
   <<"g", "p", "t", "-", "4", ".", "1">>}

\* const blocked = ['audio', 'realtime', 'tts', 'image', 'transcribe',
\*                  'moderation', 'o3', 'o4', 'o1', '4o']
OpenAiBlocked ==
  {<<"a", "u", "d", "i", "o">>,
   <<"r", "e", "a", "l", "t", "i", "m", "e">>,
   <<"t", "t", "s">>,
   <<"i", "m", "a", "g", "e">>,
   <<"t", "r", "a", "n", "s", "c", "r", "i", "b", "e">>,
   <<"m", "o", "d", "e", "r", "a", "t", "i", "o", "n">>,
   <<"o", "3">>,
   <<"o", "4">>,
   <<"o", "1">>,
   <<"4", "o">>}

\* const blocked = ['embedding', 'aqa', 'imagen', 'veo', 'thinking', 'exp',
\*                  'image', 'native-audio', 'customtools']
GeminiBlocked ==
  {<<"e", "m", "b", "e", "d", "d", "i", "n", "g">>,
   <<"a", "q", "a">>,
   <<"i", "m", "a", "g", "e", "n">>,
   <<"v", "e", "o">>,
   <<"t", "h", "i", "n", "k", "i", "n", "g">>,
   <<"e", "x", "p">>,
   <<"i", "m", "a", "g", "e">>,
   <<"n", "a", "t", "i", "v", "e", "-", "a", "u", "d", "i", "o">>,
   <<"c", "u", "s", "t", "o", "m", "t", "o", "o", "l", "s">>}

\* String.prototype.startsWith, includes and replace (first occurrence)
startsWith(s, p) == Len(p) <= Len(s) /\ SubSeq(s, 1, Len(p)) = p

RECURSIVE indexOfFrom(_, _, _)
indexOfFrom(s, p, i) ==
  IF i + Len(p) - 1 > Len(s) THEN 0
  ELSE IF SubSeq(s, i, i + Len(p) - 1) = p THEN i
  ELSE indexOfFrom(s, p, i + 1)

includes(s, p) == indexOfFrom(s, p, 1) # 0

replaceFirst(s, p, by) ==
  LET i == indexOfFrom(s, p, 1)
  IN  IF i = 0 THEN s
      ELSE SubSeq(s, 1, i - 1) \o by \o SubSeq(s, i + Len(p), Len(s))

Digits == {"0", "1", "2", "3", "4", "5", "6", "7", "8", "9"}

\* /\d{4}-\d{2}-\d{2}/ tried at place i: four digits, "-", two digits, "-",
\* two digits
DateAt(s, i) ==
  /\ i + 9 <= Len(s)
  /\ \A k \in {0, 1, 2, 3, 5, 6, 8, 9} : s[i + k] \in Digits
  /\ s[i + 4] = "-" /\ s[i + 7] = "-"

\* /\d{4}-\d{2}-\d{2}/.test(s): the pattern tried at each place in turn
RECURSIVE testDateFrom(_, _)
testDateFrom(s, i) ==
  IF i > Len(s) THEN FALSE
  ELSE IF DateAt(s, i) THEN TRUE
  ELSE testDateFrom(s, i + 1)

testDate(s) == testDateFrom(s, 1)

\* /^gemini-\d/.test(s)
testGeminiVersion(s) ==
  /\ startsWith(s, GEMINI_DASH)
  /\ Len(s) > Len(GEMINI_DASH)
  /\ s[Len(GEMINI_DASH) + 1] \in Digits

\* isRelevantModel(modelId, provider), first without the date test of the
\* openai rules
isRelevantModelNoDate(modelId, provider) ==
  IF provider = "openai"
    THEN /\ \E p \in OpenAiAllowed : startsWith(modelId, p)
         /\ ~\E b \in OpenAiBlocked : includes(modelId, b)
  ELSE IF provider = "gemini"
    THEN LET name == replaceFirst(modelId, MODELS_SLASH, <<>>)
         IN  /\ testGeminiVersion(name)
             /\ ~\E b \in GeminiBlocked : includes(name, b)
  ELSE IF provider = "anthropic"
    THEN startsWith(modelId, CLAUDE_DASH)
  ELSE TRUE

isRelevantModel(modelId, provider) ==
  IF provider = "openai"
    THEN /\ \E p \in OpenAiAllowed : startsWith(modelId, p)
         /\ ~\E b \in OpenAiBlocked : includes(modelId, b)
         /\ ~testDate(modelId)
  ELSE IF provider = "gemini"
    THEN LET name == replaceFirst(modelId, MODELS_SLASH, <<>>)
         IN  /\ testGeminiVersion(name)
             /\ ~\E b \in GeminiBlocked : includes(name, b)
  ELSE IF provider = "anthropic"
    THEN startsWith(modelId, CLAUDE_DASH)
  ELSE TRUE

\* Array.prototype.sort() of strings: by UTF-16 code units.  CharOrder lists
\* the characters of the identifiers by code.
CharOrder ==
  <<"-", ".", "/", "0", "1", "2", "3", "4", "5", "6", "7", "8", "9",
    "a", "b", "c", "d", "e", "f", "g", "h", "i", "j", "k", "l", "m",
    "n", "o", "p", "q", "r", "s", "t", "u", "v", "w", "x", "y", "z">>

CharCode(c) == CHOOSE k \in DOMAIN CharOrder : CharOrder[k] = c

RECURSIVE StrLess(_, _)
StrLess(a, b) ==
  IF b = <<>> THEN FALSE
  ELSE IF a = <<>> THEN TRUE
  ELSE IF Head(a) = Head(b) THEN StrLess(Tail(a), Tail(b))
  ELSE CharCode(Head(a)) < CharCode(Head(b))

RECURSIVE InsertStr(_, _)
InsertStr(sorted, x) ==
  IF sorted = <<>> THEN <<x>>
  ELSE IF StrLess(x, Head(sorted)) THEN <<x>> \o sorted
  ELSE <<Head(sorted)>> \o InsertStr(Tail(sorted), x)

RECURSIVE SortStrs(_)
SortStrs(list) ==
  IF list = <<>> THEN <<>>
  ELSE InsertStr(SortStrs(SubSeq(list, 1, Len(list) - 1)), list[Len(list)])

RECURSIVE FilterModels(_, _)
FilterModels(list, provider) ==
  IF list = <<>> THEN <<>>
  ELSE (IF isRelevantModel(Head(list), provider) THEN <<Head(list)>> ELSE <<>>)
       \o FilterModels(Tail(list), provider)

\* the message of the error a failed pool.query throws, of the SyntaxError
\* JSON.parse throws, and of the Error a provider adapter throws
DbErrorText       == "relation \"provider_configs\" does not exist"
SyntaxErrorText   == "Unexpected token in JSON"
UpstreamErrorText == "API error 500: body"

\* getEnvKey(provider): process.env[map[provider]] || null
getEnvKey(provider) == env[provider]

\* api_key || getEnvKey(provider)
ApiKeyEnvFirst(api_key, provider) ==
  IF getEnvKey(provider) # NoKey THEN getEnvKey(provider) ELSE api_key

ApiKey(api_key, provider) ==
  IF api_key # NoKey THEN api_key ELSE getEnvKey(provider)

\* callGemini / callOpenAI / callAnthropic: the text of the answer ('' when
\* the answer holds none), or a throw when the answer is not ok
callFn(answer) ==
  IF answer.ok THEN [threw |-> FALSE, response |-> answer.text, error |-> ""]
               ELSE [threw |-> TRUE, response |-> <<>>, error |-> UpstreamErrorText]

\* the ai_logs row callWithLogging inserts (provider_configs holds no row
\* here, so model is NULL)
LogRow(provider, endpoint, prompt, res) ==
  [provider |-> provider, model |-> NullNote, endpoint |-> endpoint,
   prompt |-> prompt,
   response |-> IF res.threw THEN <<>> ELSE <<res.response>>,
   error |-> IF res.threw THEN res.error ELSE NullNote]

\* (first: the insert sent after the call returned, not in a finally block)
callWithLoggingOnSuccess(provider, endpoint, prompt, answer, enableLogging) ==
  LET res == callFn(answer)
  IN  [res     |-> res,
       inserts |-> IF enableLogging /\ ~res.threw
                     THEN <<LogRow(provider, endpoint, prompt, res)>> ELSE <<>>]

\* (second: the finally block returns, and its value replaces the call's)
callWithLoggingReturnsInFinally(provider, endpoint, prompt, answer, enableLogging) ==
  LET res == callFn(answer)
  IN  [res     |-> IF enableLogging
                     THEN [threw |-> FALSE, response |-> <<>>, error |-> ""]
                     ELSE res,
       inserts |-> IF enableLogging
                     THEN <<LogRow(provider, endpoint, prompt, res)>> ELSE <<>>]

\* callWithLogging: res is what it returns or throws, which is what callFn
\* returned or threw; inserts are the log INSERTs its finally block sends
\* without awaiting them
callWithLogging(provider, endpoint, prompt, answer, enableLogging) ==
  LET res == callFn(answer)
  IN  [res     |-> res,
       inserts |-> IF enableLogging
                     THEN <<LogRow(provider, endpoint, prompt, res)>> ELSE <<>>]

\* err.message || fallback
ErrMessage(message, fallback) == IF message = "" THEN fallback ELSE message

\* POST /api/ai/breakdown.  dbOk: the provider_configs query succeeds.
BreakdownResponse(task_label, api_key, provider, dbOk, res) ==
  LET apiKey == ApiKey(api_key, provider)
      match  == MatchBracketSpan(res.response)
      parsed == JsonParse(match[1])
      none   == JsonArray(<<>>)
  IN  IF task_label = ""
        THEN [status |-> 400, error |-> "task_label is required",
              called |-> FALSE, subtasks |-> none]
      ELSE IF provider \notin Providers
        THEN [status |-> 400, error |-> "Unknown provider",
              called |-> FALSE, subtasks |-> none]
      ELSE IF ~dbOk
        THEN [status |-> 500, error |-> ErrMessage(DbErrorText, "Failed to break down task"),
              called |-> FALSE, subtasks |-> none]
      ELSE IF apiKey = NoKey /\ provider # "openai"
        THEN [status |-> 400, error |-> "No API key configured. Add one in Settings.",
              called |-> FALSE, subtasks |-> none]
      ELSE IF res.threw
        THEN [status |-> 500, error |-> ErrMessage(res.error, "Failed to break down task"),
              called |-> TRUE, subtasks |-> none]
      ELSE IF match = <<>>
        THEN [status |-> 502, error |-> "Could not parse AI response",
              called |-> TRUE, subtasks |-> none]
      ELSE IF ~parsed.ok
        THEN [status |-> 500, error |-> ErrMessage(SyntaxErrorText, "Failed to break down task"),
              called |-> TRUE, subtasks |-> none]
      ELSE [status |-> 200, error |-> "", called |-> TRUE, subtasks |-> parsed.value]

Breakdown(task_label, api_key, reqProvider, enable_logging, dbOk) ==
  LET provider == IF reqProvider = "" THEN "gemini" ELSE reqProvider
      c        == callWithLogging(provider, "breakdown", task_label, upstream,
                                  enable_logging)
      r        == BreakdownResponse(task_label, api_key, provider, dbOk, c.res)
  IN  /\ enable_logging => Len(ai_logs) + Len(logging) < MaxLogs
      /\ logging' = IF r.called THEN logging \o c.inserts ELSE logging
      /\ Respond([op |-> "breakdown", status |-> r.status, error |-> r.error,
                  subtasks |-> r.subtasks, called |-> r.called,
                  apiKey |-> IF r.called THEN ApiKey(api_key, provider) ELSE NoKey,
                  task_label |-> task_label, api_key |-> api_key,
                  provider |-> provider, dbOk |-> dbOk,
                  enable_logging |-> enable_logging])
      /\ run' = NoRun
      /\ UNCHANGED <<projects, tasks, blockers, now, nextTaskId, nextProjectId,
                     env, upstream, ai_logs, exporting, creating, pool>>

\* The INSERT INTO ai_logs that callWithLogging sent completes, after the
\* handler went on: ok, it adds its row; otherwise .catch logs the failure.
LogInsert(k, ok) ==
  /\ k \in DOMAIN logging
  /\ ai_logs' = IF ok THEN Append(ai_logs, logging[k]) ELSE ai_logs
  /\ logging' = SubSeq(logging, 1, k - 1) \o SubSeq(logging, k + 1, Len(logging))
  /\ UNCHANGED <<projects, tasks, blockers, now, nextTaskId, nextProjectId,
                 last, prev, run, env, upstream, exporting, creating, pool>>

\* POST /api/ai/models
ListModels(provider, api_key) ==
  /\ Respond(
       IF provider = ""
         THEN [op |-> "models", provider |-> provider, status |-> 400,
               error |-> "provider is required", models |-> <<>>]
       ELSE IF api_key = NoKey
         THEN [op |-> "models", provider |-> provider, status |-> 400,
               error |-> "api_key is required", models |-> <<>>]
       ELSE IF provider \notin Providers
         THEN [op |-> "models", provider |-> provider, status |-> 400,
               error |-> "Unknown provider", models |-> <<>>]
       ELSE IF ~upstream.ok
         THEN [op |-> "models", provider |-> provider, status |-> 500,
               error |-> ErrMessage(UpstreamErrorText, "Failed to fetch models"),
               models |-> <<>>]
       ELSE [op |-> "models", provider |-> provider, status |-> 200, error |-> "",
             models |-> SortStrs(FilterModels(upstream.models, provider))])
  /\ run' = NoRun
  /\ UNCHANGED <<projects, tasks, blockers, now, nextTaskId, nextProjectId,
                 env, upstream, ai_logs, exporting,
                 creating, pool, logging>>

\* text.match(/\{[\s\S]*\}/): <<>> for null, else <<the matched span>>, from
\* the first "{" that has a "}" after it to the last "}" of the text
MatchBraceSpan(text) ==
  LET opens  == {i \in DOMAIN text : text[i] = "{"}
      closes == {j \in DOMAIN text : text[j] = "}" /\ j > SetMin(opens)}
  IN  IF opens = {} THEN <<>>
      ELSE IF closes = {} THEN <<>>
      ELSE <<SubSeq(text, SetMin(opens), SetMax(closes))>>

\* JSON.parse of a matched span, for the spans these texts can hold: braces
\* and white space.  Only "{", white space, "}" is an object, the empty one.
ParsesAsObject(span) ==
  /\ Len(span) >= 2
  /\ span[1] = "{" /\ span[Len(span)] = "}"
  /\ \A k \in 2..(Len(span) - 1) : span[k] = " "

\* the message of the Error thrown at a models API or a pricing page that
\* does not answer 2xx
ModelsApiErrorText(provider) ==
  IF provider = "openai" THEN "OpenAI models API: 500"
  ELSE IF provider = "gemini" THEN "Gemini models API: 500"
  ELSE "Anthropic models API: 500"

PricingPageErrorText == "Failed to fetch pricing page: 500"

\* an outbound request that carries a credential: the provider it goes to
\* and the key it carries
Call(to, key) == [to |-> to, key |-> key]

\* const useKey = ai_api_key || api_key
UseKey(ai_provider, ai_api_key, provider, api_key) ==
  IF ai_api_key # NoKey THEN ai_api_key ELSE api_key

\* POST /api/ai/pricing/refresh.  modelsOk, pageOk: the models API and the
\* pricing page answer 2xx; dbOk: the provider_configs query succeeds.  The
\* models API answers upstream.models, the extraction call upstream.text.
RefreshPricingResponse(provider, api_key, ai_provider, ai_api_key, enable_logging, modelsOk, pageOk, dbOk) ==
  LET rawModels   == IF provider = "gemini"
                       THEN [k \in DOMAIN upstream.models |->
                               replaceFirst(upstream.models[k], MODELS_SLASH, <<>>)]
                       ELSE upstream.models
      filtered    == SortStrs(FilterModels(rawModels, provider))
      useProvider == IF ai_provider # "" THEN ai_provider ELSE provider
      useKey      == UseKey(ai_provider, ai_api_key, provider, api_key)
      c           == callWithLogging(useProvider, "pricing-refresh", provider,
                                     upstream, enable_logging)
      match       == MatchBraceSpan(c.res.response)
      discover    == <<Call(provider, api_key)>>
      extract     == <<Call(provider, api_key), Call(useProvider, useKey)>>
      R(status, error, calls, inserts, filteredLen) ==
        [status |-> status, error |-> error, calls |-> calls, inserts |-> inserts,
         models_filtered |-> filteredLen]
  IN  IF provider = "" \/ api_key = NoKey
        THEN R(400, "provider and api_key required", <<>>, <<>>, 0)
      ELSE IF provider \notin Providers
        THEN R(400, "Unknown provider", <<>>, <<>>, 0)
      ELSE IF ~modelsOk
        THEN R(500, ErrMessage(ModelsApiErrorText(provider), "Failed to refresh pricing"),
               discover, <<>>, 0)
      ELSE IF filtered = <<>>
        THEN R(200, "", discover, <<>>, 0)
      ELSE IF ~pageOk
        THEN R(500, ErrMessage(PricingPageErrorText, "Failed to refresh pricing"),
               discover, <<>>, Len(filtered))
      ELSE IF useProvider \notin Providers
        THEN R(400, "Unknown AI provider", discover, <<>>, Len(filtered))
      ELSE IF ~dbOk
        THEN R(500, ErrMessage(DbErrorText, "Failed to refresh pricing"),
               discover, <<>>, Len(filtered))
      ELSE IF c.res.threw
        THEN R(500, ErrMessage(c.res.error, "Failed to refresh pricing"),
               extract, c.inserts, Len(filtered))
      ELSE IF match = <<>>
        THEN R(502, "Could not parse pricing from AI response",
               extract, c.inserts, Len(filtered))
      ELSE IF ~ParsesAsObject(match[1])
        THEN R(500, ErrMessage(SyntaxErrorText, "Failed to refresh pricing"),
               extract, c.inserts, Len(filtered))
      ELSE R(200, "", extract, c.inserts, Len(filtered))

RefreshPricing(provider, api_key, ai_provider, ai_api_key, enable_logging, modelsOk, pageOk, dbOk) ==
  LET r == RefreshPricingResponse(provider, api_key, ai_provider, ai_api_key,
                                  enable_logging, modelsOk, pageOk, dbOk)
  IN  /\ enable_logging => Len(ai_logs) + Len(logging) < MaxLogs
      /\ logging' = logging \o r.inserts
      /\ Respond([op |-> "refreshPricing", status |-> r.status, error |-> r.error,
                  calls |-> r.calls, models_filtered |-> r.models_filtered,
                  provider |-> provider, api_key |-> api_key,
                  ai_provider |-> ai_provider, ai_api_key |-> ai_api_key,
                  enable_logging |-> enable_logging])
      /\ run' = NoRun
      /\ UNCHANGED <<projects, tasks, blockers, now, nextTaskId, nextProjectId,
                     env, upstream, ai_logs, exporting, creating, pool>>

\* GET /api/ai/logs: Math.min(parseInt(req.query.limit) || 50, 200) rows,
\* newest first.  limit: <<>> when absent or not a number, else <<n>>.
LogLimit(limit) ==
  LET n == IF limit = <<>> \/ limit = <<0>> THEN DefaultLogLimit ELSE limit[1]
  IN  IF n < MaxLogLimit THEN n ELSE MaxLogLimit

RECURSIVE Reversed(_)
Reversed(s) == IF s = <<>> THEN <<>> ELSE Append(Reversed(Tail(s)), Head(s))

\* dbOk: the query succeeds; a negative LIMIT fails in the store as well
GetLogs(limit, dbOk) ==
  /\ Respond(
       IF ~dbOk \/ LogLimit(limit) < 0
         THEN [op |-> "getLogs", status |-> 500, error |-> DbErrorText, rows |-> <<>>]
         ELSE [op |-> "getLogs", status |-> 200, error |-> "",
               rows |-> LET all == Reversed(ai_logs)
                        IN  IF Len(all) <= LogLimit(limit) THEN all
                            ELSE SubSeq(all, 1, LogLimit(limit))])
  /\ run' = NoRun
  /\ UNCHANGED <<projects, tasks, blockers, now, nextTaskId, nextProjectId,
                 env, upstream, ai_logs, exporting,
                 creating, pool, logging>>

\* DELETE /api/ai/logs
ClearLogs(dbOk) ==
  /\ ai_logs' = IF dbOk THEN <<>> ELSE ai_logs
  /\ Respond(IF dbOk THEN [op |-> "clearLogs", status |-> 200, error |-> ""]
                     ELSE [op |-> "clearLogs", status |-> 500, error |-> DbErrorText])
  /\ run' = NoRun
  /\ UNCHANGED <<projects, tasks, blockers, now, nextTaskId, nextProjectId,
                 env, upstream, exporting,
                 creating, pool, logging>>

\* ---------------------------------------------------------- specifications

Next ==
  \/ \E name \in {"", "p"} : CreateProject(name)
  \/ \E id \in ProjectIds : DeleteProject(id)
  \/ \E label \in {"", "a"}, p \in {NoId, 1, MaxProjects}, t \in {NoId} \cup TaskIds :
       CreateTask(label, p, t)
  \/ \E id \in TaskIds : DeleteTask(id)
  \/ \E p \in ProjectIds : GetTaskTree(p)

Spec == Init /\ [][Next]_vars

\* Task trees, the blocker graph over them and cascading deletes.
NextOps ==
  \/ \E t \in {NoId} \cup TaskIds : CreateTask("a", NoId, t)
  \/ \E id \in TaskIds : DeleteTask(id)
  \/ \E t \in TaskIds, b \in {NoId} \cup TaskIds : AddBlocker(t, b, "")

SpecOps == Init /\ [][NextOps]_vars

\* The blocker graph over root tasks, by existing and by unknown identities.
NextBlk ==
  \/ CreateTask("a", NoId, NoId)
  \/ \E t \in TaskIds, b \in {NoId} \cup TaskIds, note \in {"", "n"} :
       AddBlocker(t, b, note)
  \/ \E t \in TaskIds, b \in TaskIds : RemoveBlocker(t, b)

SpecBlk == Init /\ [][NextBlk]_vars

\* Updates and deletes of a few tasks, by existing and by unknown identities.
UpdateIds == 1..MaxUpdateTasks

NextUpd ==
  \/ \E t \in {NoId, 1} : nextTaskId <= MaxUpdateTasks /\ CreateTask("a", NoId, t)
  \/ \E id \in UpdateIds,
        label \in {<<>>, <<"b">>}, position \in {<<>>, <<0>>, <<2>>},
        is_expanded \in {<<>>, <<TRUE>>, <<FALSE>>} :
       now <= MaxTime /\ UpdateTask(id, label, position, is_expanded)
  \/ UpdateTask(MaxUpdateTasks + 1, <<"b">>, <<0>>, <<FALSE>>)

SpecUpd == Init /\ [][NextUpd]_vars

\* Update, delete and remove-blocker requests that may name unknown rows.
NextNotFound ==
  \/ nextTaskId <= MaxUpdateTasks /\ CreateTask("a", NoId, NoId)
  \/ \E id \in UpdateIds \cup {MaxUpdateTasks + 1} : DeleteTask(id)
  \/ \E id \in UpdateIds \cup {MaxUpdateTasks + 1} :
       now <= MaxTime /\ UpdateTask(id, <<"b">>, <<>>, <<>>)
  \/ \E t \in UpdateIds, b \in UpdateIds : AddBlocker(t, b, "")
  \/ \E t \in UpdateIds \cup {MaxUpdateTasks + 1}, b \in UpdateIds : RemoveBlocker(t, b)

SpecNotFound == Init /\ [][NextNotFound]_vars

\* Import payloads.  Their rows carry identities of their own (an earlier
\* export's), apart from the ones gen_random_uuid() hands out here.
PayloadId(k) == MaxTasks + k

PayloadTask(id, project_id, parent_id, label, created_at) ==
  [id |-> id, project_id |-> project_id, parent_id |-> parent_id, label |-> label,
   position |-> 0, is_expanded |-> FALSE, created_at |-> created_at,
   updated_at |-> created_at]

\* one project and a chain of n tasks under it, each task a millisecond older
\* than its parent (desc) or younger (not desc), with a blocker from the root
\* to the deepest task
ChainPayload(n, desc) ==
  [hasProjects   |-> TRUE,
   projects      |-> <<[id |-> 1, name |-> "p"]>>,
   tasks         |-> [k \in 1..n |->
                        PayloadTask(PayloadId(k),
                                    IF k = 1 THEN 1 ELSE NoId,
                                    IF k = 1 THEN NoId ELSE PayloadId(k - 1),
                                    "a",
                                    IF desc THEN TsBase + TicksPerMs * (n - k)
                                            ELSE TsBase + TicksPerMs * k)],
   task_blockers |-> IF n < 2 THEN <<>>
                     ELSE <<[task_id |-> PayloadId(1), blocker_id |-> PayloadId(n),
                             note |-> NullNote]>>]

\* Round trips: a store seeded by an import or by creates is exported and
\* the export is imported.
NextRoundTrip ==
  \/ \E n \in 1..MaxChain, desc \in BOOLEAN :
       tasks = <<>> /\ projects = <<>> /\ Import(ChainPayload(n, desc))
  \/ projects = <<>> /\ CreateProject("p")
  \/ \E t \in {NoId} \cup DOMAIN tasks :
       /\ nextTaskId <= MaxRoundTripCreates
       /\ CreateTask("a", IF t = NoId THEN 1 ELSE NoId, t)
  \/ Export
  \/ last.op = "export" /\ Import(last.body)

SpecRoundTrip == Init /\ [][NextRoundTrip]_vars

\* Import payloads that fail at each step of the transaction, and ones that
\* succeed.
P1 == [id |-> 1, name |-> "p"]
T1 == PayloadTask(PayloadId(1), 1, NoId, "a", TsBase)
T2 == PayloadTask(PayloadId(2), NoId, PayloadId(1), "a", TsBase + 1)

PayloadProjects ==
  {<<>>, <<P1>>, <<P1, P1>>, <<[id |-> 1, name |-> NullNote]>>}

PayloadTasks ==
  {<<>>, <<T1>>, <<T2, T1>>, <<T1, T1>>,
   <<T2>>,
   <<[T1 EXCEPT !.parent_id = PayloadId(2)], T2>>,
   <<[T1 EXCEPT !.project_id = 2]>>,
   <<T1, [T2 EXCEPT !.label = NullNote]>>}

B12 == [task_id |-> PayloadId(1), blocker_id |-> PayloadId(2), note |-> "n"]

PayloadBlockers ==
  {<<>>, <<B12>>, <<B12, [B12 EXCEPT !.note = NullNote]>>,
   <<[B12 EXCEPT !.blocker_id = PayloadId(1)]>>,
   <<[B12 EXCEPT !.blocker_id = PayloadId(3)]>>}

OkPayload ==
  [hasProjects |-> TRUE, projects |-> <<P1>>, tasks |-> <<T2, T1>>,
   task_blockers |-> <<B12>>]

\* task rows the passes cannot all insert: a parent missing from the payload
\* next to a root task, and two tasks that are each other's parent
UnresolvedTasks ==
  {<<T1, [T2 EXCEPT !.parent_id = PayloadId(3)]>>,
   <<[T1 EXCEPT !.parent_id = PayloadId(2)], T2>>}

\* OkPayload, OkPayload with one part replaced, and payloads without
\* blockers whose task rows cannot all be inserted
Payloads ==
  {OkPayload, [OkPayload EXCEPT !.hasProjects = FALSE]}
  \cup {[OkPayload EXCEPT !.projects = ps] : ps \in PayloadProjects}
  \cup {[OkPayload EXCEPT !.tasks = ts] : ts \in PayloadTasks}
  \cup {[OkPayload EXCEPT !.task_blockers = bs] : bs \in PayloadBlockers}
  \cup {[OkPayload EXCEPT !.tasks = ts, !.task_blockers = <<>>] : ts \in UnresolvedTasks}

NextImport ==
  \/ CreateProject("p")
  \/ \E t \in {NoId} \cup UpdateIds :
       nextTaskId <= MaxUpdateTasks /\ CreateTask("a", IF t = NoId THEN 1 ELSE NoId, t)
  \/ \E t \in UpdateIds : AddBlocker(t, 1, "")
  \/ \E body \in Payloads : Import(body)

SpecImport == Init /\ [][NextImport]_vars

\* Projects with task trees and blockers over them, and project deletes.
NextProj ==
  \/ CreateProject("p")
  \/ \E p \in {NoId} \cup ProjectIds : CreateTask("a", p, NoId)
  \/ \E p \in {NoId, 1}, t \in TaskIds : CreateTask("a", p, t)
  \/ \E t \in TaskIds, b \in TaskIds : blockers = {} /\ AddBlocker(t, b, "")
  \/ \E id \in ProjectIds : DeleteProject(id)

SpecProj == Init /\ [][NextProj]_vars

\* The store after construction, with the environment's keys drawn from E
\* and the provider's pending answer from U.
InitAi(E, U) ==
  /\ projects = <<>>
  /\ tasks = <<>>
  /\ blockers = {}
  /\ now = 1
  /\ nextTaskId = 1
  /\ nextProjectId = 1
  /\ last = [op |-> "none", status |-> 0]
  /\ prev = [projects |-> <<>>, tasks |-> <<>>, blockers |-> {}]
  /\ run = NoRun
  /\ env \in E
  /\ upstream \in U
  /\ ai_logs = <<>>
  /\ exporting = NotExporting
  /\ creating = [r \in Requests |-> NotCreating]
  /\ pool = 0
  /\ logging = <<>>

\* Model outputs: the pieces of a JSON array of strings, prose and white
\* space, put together in every order.
Chunks ==
  {<<"[">>, <<"]">>, <<"\"", "a", "\"">>, <<",", "\"", "b", "\"">>, <<"x">>, <<" ">>}

\* the pieces of a model output, put together
RECURSIVE Concat(_)
Concat(pieces) ==
  IF pieces = <<>> THEN <<>> ELSE Head(pieces) \o Concat(Tail(pieces))

\* Breakdown requests with a key, over every model output.
InitParse ==
  \E n \in 0..MaxChunks : \E pieces \in [1..n -> Chunks] :
    InitAi({[p \in Providers |-> NoKey]}, {[ok |-> TRUE, text |-> Concat(pieces), models |-> <<>>]})

NextParse == Breakdown("t", "k", "gemini", FALSE, TRUE)

SpecParse == InitParse /\ [][NextParse]_vars

\* Breakdown requests of every shape, under every environment, against a
\* provider that answers an array, answers nothing or fails, and a store
\* whose queries may fail.
Answers ==
  {[ok |-> TRUE, text |-> <<"[", "\"", "a", "\"", "]">>, models |-> <<>>],
   [ok |-> TRUE, text |-> <<>>, models |-> <<>>],
   NoUpstream}

NextCred ==
  \/ \E task_label \in {"", "t"}, api_key \in {NoKey, "k"},
        reqProvider \in {""} \cup Providers \cup {"other"}, dbOk \in BOOLEAN :
       Breakdown(task_label, api_key, reqProvider, FALSE, dbOk)
  \/ \E limit \in {<<>>, <<1>>, <<-1>>}, dbOk \in BOOLEAN : GetLogs(limit, dbOk)
  \/ \E dbOk \in BOOLEAN : ClearLogs(dbOk)

SpecCred == InitAi([Providers -> {NoKey, "e"}], Answers) /\ [][NextCred]_vars

\* Model identifiers: a beginning and up to MaxIdPieces pieces after it.
IdPrefixes ==
  {<<"g", "p", "t", "-", "5">>,
   <<"g", "p", "t", "-", "4", ".", "1">>,
   <<"g", "p", "t", "-", "4">>,
   <<"g", "e", "m", "i", "n", "i", "-">>,
   <<"m", "o", "d", "e", "l", "s", "/", "g", "e", "m", "i", "n", "i", "-">>,
   <<"c", "l", "a", "u", "d", "e", "-">>,
   <<>>}

IdPieces ==
  {<<"o">>,
   <<"1">>,
   <<"4">>,
   <<"-", "2", "0", "2", "5">>,
   <<"-", "0", "4">>,
   <<"t", "t", "s">>}

GPT_4_1 == <<"g", "p", "t", "-", "4", ".", "1">>

\* Model listings of every provider over an upstream list that holds one of
\* the identifiers, alone or followed by gpt-4.1, or over a failing upstream.
InitModels ==
  \E prefix \in IdPrefixes, n \in 0..MaxIdPieces : \E pieces \in [1..n -> IdPieces] :
    \E rest \in {<<>>, <<GPT_4_1>>} :
      InitAi({[p \in Providers |-> NoKey]},
             {[ok |-> TRUE, text |-> <<>>,
               models |-> <<prefix \o Concat(pieces)>> \o rest],
              NoUpstream})

NextModels ==
  \E provider \in {""} \cup Providers \cup {"other"}, api_key \in {NoKey, "k"} :
    ListModels(provider, api_key)

SpecModels == InitModels /\ [][NextModels]_vars

\* An export that runs statement by statement beside creates, deletes and
\* imports.
NextExport ==
  \/ projects = <<>> /\ CreateProject("p")
  \/ \E t \in {NoId} \cup UpdateIds :
       nextTaskId <= MaxUpdateTasks /\ CreateTask("a", IF t = NoId THEN 1 ELSE NoId, t)
  \/ \E id \in UpdateIds : DeleteTask(id)
  \/ DeleteProject(1)
  \/ \E t \in UpdateIds : AddBlocker(t, 1, "")
  \/ Import(OkPayload)
  \/ ExportBegin
  \/ ExportSelectProjects
  \/ ExportSelectTasks
  \/ ExportSelectBlockers
  \/ ExportRespond

SpecExport == Init /\ [][NextExport]_vars

\* Every request that writes task rows: creates (also under unknown
\* parents), updates, deletes of tasks and of projects, and imports of
\* payloads that resolve and of ones that do not.
ForestPayloads ==
  {OkPayload}
  \cup {[OkPayload EXCEPT !.tasks = ts, !.task_blockers = <<>>] : ts \in UnresolvedTasks}

NextForest ==
  \/ projects = <<>> /\ CreateProject("p")
  \/ \E t \in {NoId, MaxTasks} \cup DOMAIN tasks :
       nextTaskId <= MaxRoundTripCreates /\ CreateTask("a", IF t = NoId THEN 1 ELSE NoId, t)
  \/ \E id \in 1..MaxRoundTripCreates :
       now <= MaxRoundTripCreates + 1 /\ UpdateTask(id, <<"b">>, <<2>>, <<>>)
  \/ \E id \in {MaxTasks} \cup DOMAIN tasks : DeleteTask(id)
  \/ DeleteProject(1)
  \/ \E body \in ForestPayloads : Import(body)

SpecForest == Init /\ [][NextForest]_vars

\* Every request that writes blocker rows or deletes what they refer to:
\* add-blocker (also of stored pairs, of a task to itself and of unknown
\* tasks), remove-blocker, deletes of tasks and of projects, and imports
\* whose blocker rows are sound, doubled, self-blocking or dangling.
NextBlkInv ==
  \/ nextTaskId <= MaxRoundTripCreates /\ CreateTask("a", NoId, NoId)
  \/ \E t \in {MaxTasks} \cup DOMAIN tasks, b \in {MaxTasks} \cup DOMAIN tasks :
       AddBlocker(t, b, "")
  \/ \E t \in DOMAIN tasks, b \in DOMAIN tasks : RemoveBlocker(t, b)
  \/ \E id \in DOMAIN tasks : DeleteTask(id)
  \/ DeleteProject(1)
  \/ \E bs \in PayloadBlockers : Import([OkPayload EXCEPT !.task_blockers = bs])

SpecBlkInv == Init /\ [][NextBlkInv]_vars

\* Create-task requests that run beside each other under a task, under an
\* unknown task and without a parent, with deletes of the parent between
\* their statements.
NextCreate ==
  \/ nextTaskId <= MaxRoundTripCreates /\ CreateTask("a", NoId, NoId)
  \/ \E r \in Requests, label \in {"", "a"}, parent_id \in {NoId, 1, MaxTasks + 1} :
       CreateTaskBegin(r, label, NoId, parent_id)
  \/ \E r \in Requests : CreateTaskSelect(r)
  \/ \E r \in Requests : CreateTaskInsert(r)
  \/ DeleteTask(1)

SpecCreate == Init /\ [][NextCreate]_vars

\* Trees of one project whose tasks are moved to positions that other
\* siblings hold or have passed and are deleted, and the reads of the tree.
NextTree ==
  \/ projects = <<>> /\ CreateProject("p")
  \/ \E t \in {NoId, 1} : CreateTask("a", IF t = NoId THEN 1 ELSE NoId, t)
  \/ \E id \in DOMAIN tasks, position \in {<<0>>, <<1>>} :
       now <= MaxTime /\ UpdateTask(id, <<>>, position, <<>>)
  \/ \E id \in DOMAIN tasks : DeleteTask(id)
  \/ GetTaskTree(1)

SpecTree == Init /\ [][NextTree]_vars

\* Breakdown requests with and without logging against a provider that
\* answers or fails, the log inserts they leave behind completing or
\* failing in any order, and reads and clears of the log.
NextLog ==
  \/ \E task_label \in {"", "t", "u"}, enable_logging \in BOOLEAN, dbOk \in BOOLEAN :
       Breakdown(task_label, "k", "gemini", enable_logging, dbOk)
  \/ \E k \in 1..MaxLogs, ok \in BOOLEAN : LogInsert(k, ok)
  \/ \E dbOk \in BOOLEAN : GetLogs(<<>>, dbOk)
  \/ \E dbOk \in BOOLEAN : ClearLogs(dbOk)

SpecLog == InitAi([Providers -> {NoKey}], Answers) /\ [][NextLog]_vars

\* Pricing refreshes of every shape: with and without a provider for the
\* extraction and a key for it, against a models API that lists gpt-4.1 or
\* nothing, an extraction that answers an object, prose or half an object or
\* fails, and a pricing page and a store that may fail.
PricingAnswers ==
  {[ok |-> ok, text |-> text, models |-> models] :
     ok \in BOOLEAN,
     text \in {<<"{", "}">>, <<"x">>, <<"{", "{", "}">>},
     models \in {<<>>, <<GPT_4_1>>}}

NextPricing ==
  \E provider \in {"", "openai", "gemini", "other"}, api_key \in {NoKey, "k"},
     ai_provider \in {"", "openai", "anthropic", "other"}, ai_api_key \in {NoKey, "a"},
     modelsOk \in BOOLEAN, pageOk \in BOOLEAN, dbOk \in BOOLEAN :
    RefreshPricing(provider, api_key, ai_provider, ai_api_key, FALSE,
                   modelsOk, pageOk, dbOk)

SpecPricing == InitAi({[p \in Providers |-> NoKey]}, PricingAnswers) /\ [][NextPricing]_vars

\* Requests of every kind that are refused or fail, over stores that hold
\* projects, tasks and blockers: empty names and labels, unknown projects,
\* tasks and relations, stored and self-blocking pairs, and imports without
\* a projects array or with rows that cannot be inserted.
ErrPayloads ==
  {OkPayload, [OkPayload EXCEPT !.hasProjects = FALSE],
   [OkPayload EXCEPT !.task_blockers = <<B12, B12>>]}
  \cup {[OkPayload EXCEPT !.tasks = ts, !.task_blockers = <<>>] : ts \in UnresolvedTasks}

NextErr ==
  \/ \E name \in {"", "p"} : projects = <<>> /\ CreateProject(name)
  \/ \E id \in {1, MaxProjects} : DeleteProject(id)
  \/ \E label \in {"", "a"}, p \in {NoId, 1, MaxProjects}, t \in {NoId, MaxTasks} :
       nextTaskId <= MaxUpdateTasks /\ CreateTask(label, p, t)
  \/ \E id \in {1, MaxTasks} : now <= MaxUpdateTasks /\ UpdateTask(id, <<"b">>, <<>>, <<>>)
  \/ \E id \in {1, MaxTasks} : DeleteTask(id)
  \/ \E t \in {1, MaxTasks}, b \in {NoId, 1, 2, MaxTasks} : AddBlocker(t, b, "")
  \/ \E b \in {1, 2} : RemoveBlocker(1, b)
  \/ \E body \in ErrPayloads : Import(body)

SpecErr == Init /\ [][NextErr]_vars

\* Exports that run statement by statement and may fail at any of them,
\* beside imports that are refused, rolled back or committed or that get no
\* connection.
NextPool ==
  \/ projects = <<>> /\ CreateProject("p")
  \/ nextTaskId <= MaxRoundTripCreates /\ CreateTask("a", 1, NoId)
  \/ ExportBegin
  \/ ExportSelectProjects
  \/ ExportSelectTasks
  \/ ExportSelectBlockers
  \/ ExportRespond
  \/ ExportFail
  \/ \E body \in ErrPayloads : Import(body)
  \/ ImportNoConnection(OkPayload)

SpecPool == Init /\ [][NextPool]_vars

\* ------------------------------------------------- notions of the claims

\* the root task a task's parent chain ends at
RECURSIVE RootOf(_, _)
RootOf(T, i) == IF T[i].parent_id = NoId THEN i ELSE RootOf(T, T[i].parent_id)

\* a is a proper ancestor of i
RECURSIVE IsAncestor(_, _, _)
IsAncestor(T, a, i) ==
  /\ T[i].parent_id # NoId
  /\ (T[i].parent_id = a \/ IsAncestor(T, a, T[i].parent_id))

SeqSet(s) == {s[k] : k \in 1..Len(s)}

\* the identities that appear in the nested result, at any level
RECURSIVE NestedIds(_, _)
NestedIds(children, list) ==
  SeqSet(list) \cup UNION {NestedIds(children, children[n]) : n \in SeqSet(list)}

\* how many nodes of the nested result carry identity i
RECURSIVE Occurrences(_, _, _)
Occurrences(children, list, i) ==
  IF list = <<>> THEN 0
  ELSE (IF Head(list) = i THEN 1 ELSE 0)
       + Occurrences(children, children[Head(list)], i)
       + Occurrences(children, Tail(list), i)

\* C1: get-task-tree(P) returns only tasks whose parent chain ends at a root
\* task (parent null) whose project reference is P; no task of the tree of
\* another project appears anywhere in the nested result.
C1_TreeOnlyOwnProject ==
  last.op = "getTaskTree" =>
    \A i \in NestedIds(last.body.children, last.body.roots) :
      /\ i \in DOMAIN tasks
      /\ tasks[RootOf(tasks, i)].parent_id = NoId
      /\ tasks[RootOf(tasks, i)].project_id = last.projectId

\* a nested result with a child node, while the store also holds the tree of
\* another project and a non-root task that stores another project's id
C1_Witness ==
  /\ last.op = "getTaskTree"
  /\ \E i \in NestedIds(last.body.children, last.body.roots) :
       tasks[i].parent_id # NoId
  /\ \E j \in DOMAIN tasks :
       tasks[RootOf(tasks, j)].project_id \notin {NoId, last.projectId}
  /\ \E j \in DOMAIN tasks :
       /\ tasks[j].parent_id # NoId
       /\ tasks[j].project_id # NoId
       /\ tasks[j].project_id # tasks[RootOf(tasks, j)].project_id

\* C2: get-task-tree(P) contains every task reachable from P's root tasks
\* through parent links exactly once: a task with null parent is a top-level
\* entry, every other task is an entry of its parent's children list, and
\* its depth tag is its parent's depth plus one (roots have depth 0).
C2_TreeComplete ==
  last.op = "getTaskTree" =>
    \A i \in DOMAIN tasks :
      tasks[RootOf(tasks, i)].project_id = last.projectId =>
        /\ Occurrences(last.body.children, last.body.roots, i) = 1
        /\ IF tasks[i].parent_id = NoId
             THEN /\ i \in SeqSet(last.body.roots)
                  /\ last.body.depth[i] = 0
             ELSE /\ tasks[i].parent_id \in DOMAIN last.body.children
                  /\ i \in SeqSet(last.body.children[tasks[i].parent_id])
                  /\ last.body.depth[i] = last.body.depth[tasks[i].parent_id] + 1

\* a result with a grandchild (depth 2) under a child under a root
C2_Witness ==
  /\ last.op = "getTaskTree"
  /\ \E i \in DOMAIN last.body.depth :
       /\ last.body.depth[i] = 2
       /\ Occurrences(last.body.children, last.body.roots, i) = 1

\* C6: starting from a parent (or project root level) with no children,
\* creating N tasks under it one after another, with no other request in
\* between, assigns them positions 0, 1, ..., N-1 in creation order.
C6_SequentialPositions ==
  \A k \in 1..Len(run.ids) : tasks[run.ids[k]].position = k - 1

\* three tasks created in a row under one parent or one project root level
C6_Witness ==
  /\ Len(run.ids) = 3
  /\ tasks[run.ids[3]].position = 2

\* the store as the claims compare it before and after a request
Descendants(T, t) == {i \in DOMAIN T : IsAncestor(T, t, i)}

\* C3: for every existing task T, delete-task(T) removes exactly T, every
\* transitive descendant of T and every blocker relation with an endpoint
\* among them; every other task, blocker relation and project is unchanged.
C3_DeleteCascade ==
  (last.op = "deleteTask" /\ last.id \in DOMAIN prev.tasks) =>
    LET gone == {last.id} \cup Descendants(prev.tasks, last.id)
    IN  /\ last.status = 204
        /\ DOMAIN tasks = DOMAIN prev.tasks \ gone
        /\ \A i \in DOMAIN tasks : tasks[i] = prev.tasks[i]
        /\ blockers = {b \in prev.blockers : b.task_id \notin gone /\ b.blocker_id \notin gone}
        /\ projects = prev.projects

\* a delete of a task with a descendant, which took with it a blocker whose
\* blocking endpoint was the descendant and left another task in place
C3_Witness ==
  /\ last.op = "deleteTask"
  /\ last.id \in DOMAIN prev.tasks
  /\ Descendants(prev.tasks, last.id) # {}
  /\ \E b \in prev.blockers :
       /\ b.blocker_id \in Descendants(prev.tasks, last.id)
       /\ b.task_id \notin {last.id} \cup Descendants(prev.tasks, last.id)
       /\ b \notin blockers
  /\ tasks # <<>>

\* C7: add-blocker(A, A) fails with 400 in every store state, also when A
\* does not exist or has other blockers, and leaves the blockers unchanged.
C7_SelfBlockRejected ==
  (last.op = "addBlocker" /\ last.taskId = last.blocker_id) =>
    /\ last.status = 400
    /\ blockers = prev.blockers

\* a rejected self-block of an existing task that has another blocker
C7_Witness ==
  /\ last.op = "addBlocker"
  /\ last.taskId = last.blocker_id
  /\ last.taskId \in DOMAIN tasks
  /\ \E b \in blockers : b.task_id = last.taskId
  /\ last.status = 400

\* C8: if the relation (blocked A, blocker B) exists, add-blocker(A, B) fails
\* with 409 whatever note is supplied and the existing relation, its note
\* included, is unchanged; so the second of two add-blocker(A, B) in a row
\* fails with 409.
C8_DuplicateConflict ==
  (last.op = "addBlocker" /\ HasPair(prev.blockers, last.taskId, last.blocker_id)) =>
    /\ last.status = 409
    /\ blockers = prev.blockers

\* a 409 for a pair that is stored with a note, next to another relation
C8_Witness ==
  /\ last.op = "addBlocker"
  /\ last.status = 409
  /\ \E b \in blockers :
       b.task_id = last.taskId /\ b.blocker_id = last.blocker_id /\ b.note = "n"
  /\ Cardinality(blockers) = 2

\* C9: update-task and delete-task on an identity no task has, and
\* remove-blocker on a pair no relation has, each fail with 404 and change
\* nothing in the store.
C9_NotFound ==
  /\ (last.op \in {"updateTask", "deleteTask"} /\ last.id \notin DOMAIN prev.tasks) =>
       (last.status = 404 /\ Store = prev)
  /\ (last.op = "removeBlocker"
        /\ ~HasPair(prev.blockers, last.taskId, last.blockerId)) =>
       (last.status = 404 /\ Store = prev)

\* a remove-blocker answered 404 for the reverse of a stored pair
C9_Witness ==
  /\ last.op = "removeBlocker"
  /\ last.status = 404
  /\ HasPair(blockers, last.blockerId, last.taskId)
  /\ Store = prev

\* C10: update-task on an existing task sets exactly the supplied fields among
\* {label, position, is_expanded} (false and 0 included) and leaves its
\* unsupplied fields, its parent and project references and every other task
\* unchanged.  (updated_at, which is no input field, is set to NOW().)
C10_MergePatch ==
  (last.op = "updateTask" /\ last.id \in DOMAIN prev.tasks) =>
    LET old == prev.tasks[last.id]
        new == tasks[last.id]
    IN  /\ last.status = 200
        /\ new.label = (IF last.label = <<>> THEN old.label ELSE last.label[1])
        /\ new.position = (IF last.position = <<>> THEN old.position ELSE last.position[1])
        /\ new.is_expanded =
             (IF last.is_expanded = <<>> THEN old.is_expanded ELSE last.is_expanded[1])
        /\ new.parent_id = old.parent_id
        /\ new.project_id = old.project_id
        /\ new.created_at = old.created_at
        /\ DOMAIN tasks = DOMAIN prev.tasks
        /\ \A j \in DOMAIN tasks \ {last.id} : tasks[j] = prev.tasks[j]
        /\ blockers = prev.blockers
        /\ projects = prev.projects

\* position 0 and flag false written over position 2 and flag true, the label
\* not supplied and kept, with another task in the store
C10_Witness ==
  /\ last.op = "updateTask"
  /\ last.id \in DOMAIN prev.tasks
  /\ last.label = <<>> /\ last.position = <<0>> /\ last.is_expanded = <<FALSE>>
  /\ prev.tasks[last.id].position = 2
  /\ prev.tasks[last.id].is_expanded = TRUE
  /\ prev.tasks[last.id].label = "b"
  /\ tasks[last.id].position = 0
  /\ tasks[last.id].is_expanded = FALSE
  /\ tasks[last.id].label = "b"
  /\ Cardinality(DOMAIN tasks) = 2

\* the task forest of a store: labels, parent/child shape, blocker pairs
Forest(S) ==
  [labels  |-> [i \in DOMAIN S.tasks |-> S.tasks[i].label],
   parents |-> [i \in DOMAIN S.tasks |-> S.tasks[i].parent_id],
   pairs   |-> {<<b.task_id, b.blocker_id>> : b \in S.blockers}]

\* C4: exporting the full dataset and importing that export reproduces an
\* isomorphic task forest (same labels, same parent/child shape, same blocker
\* pairs) for every store whose parent references are acyclic, whatever the
\* order and the creation timestamps of the task rows.  (The import clears
\* the three tables first, so it inserts into an empty store.)
C4_RoundTrip ==
  (last.op = "import" /\ last.body \in Exports(prev)) =>
    /\ last.status = 200
    /\ Forest(Store) = Forest(prev)

\* C5: if an import fails after its transaction began, the transaction is
\* rolled back: the projects, tasks and blocker relations after the failed
\* import equal those before it.
C5_ImportRollback ==
  (last.op = "import" /\ last.status = 500) => Store = prev

\* an import over a store with tasks and a blocker, whose project and task
\* rows were inserted and whose blocker row failed
C5_Witness ==
  /\ last.op = "import"
  /\ last.status = 500
  /\ InsertTasks(InsertProjects(Cleared, last.body.projects), last.body.tasks).ok
  /\ last.body.tasks # <<>>
  /\ prev.tasks # <<>>
  /\ prev.blockers # {}
  /\ Store = prev

\* the tasks of project p's tree: those whose parent chain ends at a root
\* task of p
TreeOf(T, p) == {i \in DOMAIN T : T[RootOf(T, i)].project_id = p}

\* C11: deleting a project P removes every task of P's tree (its root tasks
\* and all their transitive descendants) and every blocker relation with an
\* endpoint among them; no task whose parent chain ended at a root of P
\* remains, and P itself is gone.
C11_DeleteProjectCascade ==
  (last.op = "deleteProject" /\ last.id \in DOMAIN prev.projects) =>
    LET gone == TreeOf(prev.tasks, last.id)
    IN  /\ last.status = 204
        /\ last.id \notin DOMAIN projects
        /\ gone \cap DOMAIN tasks = {}
        /\ \A b \in blockers : b.task_id \notin gone /\ b.blocker_id \notin gone

\* a deleted project whose tree had a grandchild, with a blocker relation from
\* another project's task to a task of the tree, and that other task kept
C11_Witness ==
  /\ last.op = "deleteProject"
  /\ last.id \in DOMAIN prev.projects
  /\ \E i \in TreeOf(prev.tasks, last.id) :
       /\ prev.tasks[i].parent_id # NoId
       /\ \E b \in prev.blockers :
            /\ b.blocker_id = i
            /\ b.task_id \notin TreeOf(prev.tasks, last.id)
            /\ b.task_id \in DOMAIN tasks
            /\ b \notin blockers

\* a text that is one JSON array whose elements are all strings
IsStringArray(s) ==
  /\ s # <<>> /\ s[1] = "[" /\ s[Len(s)] = "]"
  /\ JsonParse(s).ok
  /\ \A k \in DOMAIN JsonParse(s).value.items : JsonParse(s).value.items[k].kind = "string"

\* the places <<i, j>> of the JSON arrays of strings within a text
StringArraySpans(text) ==
  {ij \in (DOMAIN text) \X (DOMAIN text) :
     ij[1] <= ij[2] /\ IsStringArray(SubSeq(text, ij[1], ij[2]))}

\* the text before place i holds no "[" and the text after place j no "]"
NoBracketAround(text, i, j) ==
  /\ \A k \in 1..(i - 1) : text[k] # "["
  /\ \A k \in (j + 1)..Len(text) : text[k] # "]"

\* C12 as stated: when the model output holds one JSON array of strings,
\* preceded and followed by arbitrary text, ai-breakdown answers 200 with
\* exactly that array, its elements in order.
C12_ArrayExtracted ==
  (last.op = "breakdown" /\ last.called /\ upstream.ok) =>
    \A ij \in StringArraySpans(upstream.text) :
      StringArraySpans(upstream.text) = {ij} =>
        /\ last.status = 200
        /\ last.subtasks = JsonParse(SubSeq(upstream.text, ij[1], ij[2])).value

\* C12 (amended): when the model output holds a JSON array of strings,
\* preceded by text without "[" and followed by text without "]", ai-breakdown
\* answers 200 with exactly that array, its elements in order.
C12_ArrayExtractedNoBrackets ==
  (last.op = "breakdown" /\ last.called /\ upstream.ok) =>
    \A ij \in StringArraySpans(upstream.text) :
      NoBracketAround(upstream.text, ij[1], ij[2]) =>
        /\ last.status = 200
        /\ last.subtasks = JsonParse(SubSeq(upstream.text, ij[1], ij[2])).value

\* the array ["a","b"] taken out of an output with prose before and after it
C12_Witness ==
  /\ last.op = "breakdown"
  /\ upstream.ok
  /\ upstream.text = <<"x", "[", "\"", "a", "\"", ",", "\"", "b", "\"", "]", "x">>
  /\ last.status = 200
  /\ last.subtasks = JsonArray(<<JsonString(<<"a">>), JsonString(<<"b">>)>>)

\* C13: ai-breakdown fails with BadUpstreamResponse (502) both when the model
\* output holds no bracketed span and when the span found does not parse as
\* JSON; neither failure is reported as another error class.
C13_BadUpstreamResponse ==
  (last.op = "breakdown" /\ last.called /\ upstream.ok) =>
    LET match == MatchBracketSpan(upstream.text)
    IN  (match = <<>> \/ ~JsonParse(match[1]).ok) => last.status = 502

\* a breakdown request that names its task and a known provider
Resolves == last.op = "breakdown" /\ last.task_label # "" /\ last.provider \in Providers

\* the request and the environment both hold no credential for the provider
NoCredential == last.api_key = NoKey /\ env[last.provider] = NoKey

\* the adapter is handed the request's credential when there is one, else
\* the environment's credential of the selected provider
CredentialOrder ==
  last.called =>
    last.apiKey = (IF last.api_key # NoKey THEN last.api_key ELSE env[last.provider])

\* C14 as stated: the per-request credential goes before the environment's;
\* with neither, the request fails with 400 before any upstream call, except
\* for openai, which proceeds with no credential.
C14_CredentialResolution ==
  Resolves =>
    /\ CredentialOrder
    /\ (NoCredential /\ last.provider # "openai") =>
         (last.status = 400 /\ ~last.called)
    /\ (NoCredential /\ last.provider = "openai" /\ last.dbOk) =>
         (last.called /\ last.apiKey = NoKey)

\* C14 (amended): the same, for a request whose provider settings were
\* loaded; when that query fails the request fails with 500, with or without
\* a credential, and no upstream call is made.
C14_CredentialResolutionLoaded ==
  Resolves =>
    /\ CredentialOrder
    /\ (NoCredential /\ last.provider # "openai" /\ last.dbOk) =>
         (last.status = 400 /\ ~last.called)
    /\ (NoCredential /\ last.provider # "openai") => ~last.called
    /\ (NoCredential /\ last.provider = "openai" /\ last.dbOk) =>
         (last.called /\ last.apiKey = NoKey)
    /\ ~last.dbOk => (last.status = 500 /\ ~last.called)

\* an openai request without any credential that reached the provider, in an
\* environment that holds another provider's key
C14_Witness ==
  /\ Resolves /\ NoCredential
  /\ last.provider = "openai"
  /\ env["gemini"] # NoKey
  /\ last.called /\ last.apiKey = NoKey
  /\ last.status = 200

\* the identifier holds the string b / a YYYY-MM-DD date somewhere
Contains(id, b) ==
  \E i \in 1..Len(id) : i + Len(b) - 1 <= Len(id) /\ SubSeq(id, i, i + Len(b) - 1) = b

ContainsDate(id) == \E i \in 1..Len(id) : DateAt(id, i)

\* the blocked substrings and allowed prefixes the claim lists
ClaimBlocked ==
  {<<"a", "u", "d", "i", "o">>,
   <<"r", "e", "a", "l", "t", "i", "m", "e">>,
   <<"t", "t", "s">>,
   <<"i", "m", "a", "g", "e">>,
   <<"t", "r", "a", "n", "s", "c", "r", "i", "b", "e">>,
   <<"m", "o", "d", "e", "r", "a", "t", "i", "o", "n">>,
   <<"o", "3">>,
   <<"o", "4">>,
   <<"o", "1">>,
   <<"4", "o">>}

ClaimAllowed ==
  {<<"g", "p", "t", "-", "5">>,
   <<"g", "p", "t", "-", "4", ".", "1">>}

\* C15: for the openai provider, isRelevantModel rejects every identifier
\* that contains a YYYY-MM-DD date, rejects every identifier that contains a
\* blocked substring, and admits an identifier exactly when it starts with
\* an allowed prefix and triggers neither rejection.
C15_OpenAiFilter ==
  (last.op = "models" /\ last.provider = "openai" /\ last.status = 200) =>
    \A id \in SeqSet(upstream.models) :
      LET admitted == id \in SeqSet(last.models)
          dated    == ContainsDate(id)
          blocked  == \E b \in ClaimBlocked : Contains(id, b)
          allowed  == \E p \in ClaimAllowed :
                        Len(p) <= Len(id) /\ \A k \in 1..Len(p) : id[k] = p[k]
      IN  /\ dated => ~admitted
          /\ blocked => ~admitted
          /\ admitted <=> (allowed /\ ~dated /\ ~blocked)

\* gpt-5-2025-04-04 (allowed prefix, no blocked substring, a date) left out
\* of a listing that kept gpt-4.1
C15_Witness ==
  /\ last.op = "models" /\ last.provider = "openai" /\ last.status = 200
  /\ upstream.models = <<<<"g", "p", "t", "-", "5", "-", "2", "0", "2", "5", "-", "0", "4", "-", "0", "4">>, GPT_4_1>>
  /\ last.models = <<GPT_4_1>>

\* C16: no error response carries the raw error text of a failed database
\* operation; database failures are surfaced only as a fixed generic message.
C16_NoDbErrorText ==
  ("error" \in DOMAIN last /\ last.status >= 400) => last.error # DbErrorText

\* C17: an export that runs beside task creations, deletions and imports
\* returns projects, tasks and blocker relations of one snapshot of the
\* store: every exported task's non-null parent is among the exported tasks,
\* every exported root task's project is among the exported projects, and
\* both endpoints of every exported blocker relation are among the exported
\* tasks.
C17_ExportSnapshot ==
  last.op = "export" =>
    LET body == last.body
        tids == {body.tasks[k].id : k \in DOMAIN body.tasks}
        pids == {body.projects[k].id : k \in DOMAIN body.projects}
    IN  /\ body \in Exports(last.snapshot)
        /\ \A k \in DOMAIN body.tasks :
             /\ body.tasks[k].parent_id # NoId => body.tasks[k].parent_id \in tids
             /\ (body.tasks[k].parent_id = NoId /\ body.tasks[k].project_id # NoId)
                  => body.tasks[k].project_id \in pids
        /\ \A k \in DOMAIN body.task_blockers :
             /\ body.task_blockers[k].task_id \in tids
             /\ body.task_blockers[k].blocker_id \in tids

\* an export of a project, a root task, its child and a blocker relation,
\* answered after the root task was deleted while the export ran
C17_Witness ==
  /\ last.op = "export"
  /\ Len(last.body.projects) = 1
  /\ \E k \in DOMAIN last.body.tasks : last.body.tasks[k].parent_id # NoId
  /\ last.body.task_blockers # <<>>
  /\ last.snapshot.tasks # <<>>
  /\ tasks = <<>>

\* C18: the import's multi-pass task insertion ends within the pass ceiling
\* (20 passes); a task is inserted only when its parent is null or already
\* inserted; and if a task is left uninserted when the passes end, the import
\* fails and commits nothing (no partial forest).
C18_ImportPassCeiling ==
  (last.op = "import" /\ last.body.hasProjects) =>
    /\ last.passes <= 20
    /\ \A k \in DOMAIN last.order :
         \E t \in SeqSet(last.body.tasks) :
           /\ t.id = last.order[k]
           /\ (t.parent_id = NoId \/ \E j \in 1..(k - 1) : last.order[j] = t.parent_id)
    /\ last.left > 0 => (last.status = 500 /\ Store = prev)
    /\ last.status = 200 =>
         \A i \in DOMAIN tasks :
           tasks[i].parent_id = NoId \/ tasks[i].parent_id \in DOMAIN tasks

\* an import of two tasks that are each other's parent and of no blockers,
\* over a store with tasks: every pass ran, both tasks were left, and nothing
\* was committed
C18_Witness ==
  /\ last.op = "import" /\ last.body.hasProjects
  /\ last.body.task_blockers = <<>>
  /\ last.passes = 20
  /\ last.left = 2
  /\ last.status = 500
  /\ prev.tasks # <<>>
  /\ Store = prev

\* C19: in every store state reachable through create-task, update-task,
\* delete-task and delete-project, a task has a non-null project reference
\* if and only if it is a root task (null parent).
C19_ProjectIffRoot ==
  \A i \in DOMAIN tasks : (tasks[i].project_id # NoId) <=> (tasks[i].parent_id = NoId)

\* following parent references from task i reaches a root task within n steps
RECURSIVE ReachesRoot(_, _, _)
ReachesRoot(T, i, n) ==
  \/ T[i].parent_id = NoId
  \/ /\ n > 0
     /\ T[i].parent_id \in DOMAIN T
     /\ ReachesRoot(T, T[i].parent_id, n - 1)

\* C20: in every store state reachable through create-task, update-task,
\* delete-task, delete-project and import, the tasks form a forest: every
\* non-null parent reference names a task of the store, and following parent
\* references from any task reaches a root task (no parent cycle).
C20_TaskForest ==
  \A i \in DOMAIN tasks :
    /\ tasks[i].parent_id # NoId => tasks[i].parent_id \in DOMAIN tasks
    /\ ReachesRoot(tasks, i, Cardinality(DOMAIN tasks))

\* a store of three tasks, put together by an import and a create under an
\* imported task, after the delete of one of them left a child task in place
C20_Witness ==
  /\ last.op = "deleteTask" /\ last.status = 204
  /\ Cardinality(DOMAIN prev.tasks) = 3
  /\ \E i \in DOMAIN tasks : tasks[i].parent_id # NoId

\* C21: in every store state reachable through add-blocker, remove-blocker,
\* task and project deletion and import, no two blocker relations have the
\* same (blocked, blocker) pair, no relation blocks a task by itself, and
\* both endpoints of every relation are tasks of the store.
C21_BlockerInvariants ==
  /\ \A b1 \in blockers, b2 \in blockers :
       (b1.task_id = b2.task_id /\ b1.blocker_id = b2.blocker_id) => b1 = b2
  /\ \A b \in blockers :
       /\ b.task_id # b.blocker_id
       /\ b.task_id \in DOMAIN tasks
       /\ b.blocker_id \in DOMAIN tasks

\* the delete of a task that blocked another: of two relations, the one it
\* was the blocker of went, the blocked task and the other relation stayed
C21_Witness ==
  /\ last.op = "deleteTask" /\ last.status = 204
  /\ Cardinality(prev.blockers) = 2
  /\ Cardinality(blockers) = 1
  /\ \E b \in prev.blockers \ blockers :
       b.blocker_id = last.id /\ b.task_id \in DOMAIN tasks

\* C22: when two create-task requests for the same existing parent are
\* interleaved so that each reads the largest sibling position before the
\* other inserts, neither fails: both answer 201 with the row they created,
\* both rows are stored under the parent, and they may carry the same
\* position.  The parent exists when it was there at both reads and still is.
Interleaved(r1, r2) ==
  /\ r1 # r2
  /\ creating[r1].pc = "done" /\ creating[r2].pc = "done"
  /\ creating[r1].parent_id = creating[r2].parent_id
  /\ creating[r1].parent_id \in creating[r1].seen \cap creating[r2].seen
  /\ creating[r1].parent_id \in DOMAIN tasks
  /\ creating[r1].id \notin creating[r2].seen
  /\ creating[r2].id \notin creating[r1].seen

C22_ConcurrentCreates ==
  \A r1 \in Requests, r2 \in Requests :
    Interleaved(r1, r2) =>
      /\ creating[r1].status = 201 /\ creating[r2].status = 201
      /\ creating[r1].id # creating[r2].id
      /\ \A r \in {r1, r2} :
           /\ creating[r].id \in DOMAIN tasks
           /\ creating[r].body = <<tasks[creating[r].id]>>
           /\ tasks[creating[r].id].parent_id = creating[r].parent_id
           /\ tasks[creating[r].id].label = creating[r].label

\* two interleaved creates under task 1 that were given the same position
C22_Witness ==
  \E r1 \in Requests, r2 \in Requests :
    /\ Interleaved(r1, r2)
    /\ creating[r1].status = 201 /\ creating[r2].status = 201
    /\ tasks[creating[r1].id].position = tasks[creating[r2].id].position

\* C23: in the nested result of get-task-tree the top-level list and every
\* children list are in ascending position, tasks of equal position in
\* ascending creation time: the fold keeps the siblings in the order of the
\* query.
SiblingOrder(T, list) ==
  \A i \in 1..Len(list), j \in 1..Len(list) :
    i < j =>
      \/ T[list[i]].position < T[list[j]].position
      \/ /\ T[list[i]].position = T[list[j]].position
         /\ T[list[i]].created_at <= T[list[j]].created_at

C23_SiblingsOrdered ==
  (last.op = "getTaskTree" /\ last.status = 200) =>
    /\ SiblingOrder(prev.tasks, last.body.roots)
    /\ \A i \in DOMAIN last.body.children :
         SiblingOrder(prev.tasks, last.body.children[i])

\* a tree read with two children of one task at the same position
C23_Witness ==
  /\ last.op = "getTaskTree" /\ last.status = 200
  /\ \E i \in DOMAIN last.body.children :
       LET list == last.body.children[i]
       IN  /\ Len(list) = 2
           /\ prev.tasks[list[1]].position = prev.tasks[list[2]].position

\* C24: the AI call log is append-only.  With logging enabled each AI
\* invocation, succeeding or failing, adds exactly one row; with logging
\* disabled it adds none; and no operation modifies or removes a row that
\* is in the log.
IsPrefix(a, b) == Len(a) <= Len(b) /\ SubSeq(b, 1, Len(a)) = a

\* a step of a breakdown request, which no log insert's completion is
BreakdownStep == last'.op = "breakdown" /\ Len(logging') >= Len(logging)

\* a step of a clear-logs request
ClearLogsStep == last'.op = "clearLogs" /\ logging' = logging

\* the rows an invocation adds: the insert it sends, or the row itself
LoggedBy(step_logging, step_logs) ==
  /\ Len(logging') + Len(ai_logs') = Len(logging) + Len(ai_logs) + step_logging
  /\ IsPrefix(logging, logging')
  /\ step_logs

TreeIds(T, Q) == {r.id : r \in TaskTreeRows(T, Q)}

C25_DeleteProjectFrame ==
  (last.op = "deleteProject" /\ last.status = 204) =>
    \A Q \in DOMAIN prev.projects \ {last.id} :
      /\ TreeIds(prev.tasks, Q) \subseteq DOMAIN tasks
      /\ \A b \in prev.blockers :
           (\E Q2 \in DOMAIN prev.projects \ {last.id} :
              /\ b.task_id \in TreeIds(prev.tasks, Q)
              /\ b.blocker_id \in TreeIds(prev.tasks, Q2))
           => b \in blockers

\* C26: in refresh-pricing the api_key of the priced provider is used only
\* in calls to that provider, and the extraction call to ai_provider carries
\* only a credential supplied for ai_provider, whether or not ai_provider
\* and ai_api_key are given.  A key is supplied for a provider when it is the
\* api_key and the provider is the priced one, or it is the ai_api_key and
\* the provider is the one the extraction goes to.
SuppliedFor(r, to) ==
  {r.api_key : x \in {to} \cap {r.provider}}
  \cup {r.ai_api_key :
          x \in {to} \cap {IF r.ai_provider # "" THEN r.ai_provider ELSE r.provider}}

C26_CredentialScope ==
  last.op = "refreshPricing" =>
    \A k \in DOMAIN last.calls :
      last.calls[k].key \in SuppliedFor(last, last.calls[k].to)

\* C27: every task, blocker, project and import operation that answers with
\* 400, 404, 409 or 500 leaves the store exactly as it was before; an import
\* rejected for its missing projects array deletes nothing.
StoreOps ==
  {"createProject", "deleteProject", "createTask", "updateTask", "deleteTask",
   "addBlocker", "removeBlocker", "import"}

C27_ErrorsLeaveStore ==
  (last.op \in StoreOps /\ last.status \in {400, 404, 409, 500}) => Store = prev

\* an import refused or rolled back over a store that holds tasks and a
\* blocker relation
C27_Witness ==
  /\ last.op = "import" /\ last.status \in {400, 500}
  /\ (last.status = 400 => ~last.body.hasProjects)
  /\ DOMAIN tasks # {} /\ blockers # {} /\ DOMAIN projects # {}

\* C28: every connection that export or import takes from the pool is
\* released exactly once on every path (commit, rollback after an error,
\* the import's early rejection): the only clients out of the pool are those
\* of the handlers that are still running.
C28_ConnectionsReleased ==
  pool = IF exporting.pc = "idle" THEN 0 ELSE 1

\* an import was refused for its missing projects array while an export
\* held its connection
C28_Witness ==
  /\ last.op = "import" /\ last.status = 400
  /\ exporting.pc = "tasks"
  /\ pool = 1

\* C29: callWithLogging returns the provider's text or rethrows the
\* provider's error alike with logging enabled and disabled, and whether or
\* not the log insert fails, and it does not wait for the log insert: the
\* answer of a breakdown is the one the provider's answer alone gives, it is
\* given while the insert has not added its row, and it stands whatever
\* becomes of the insert.
Outcome(r) == [status |-> r.status, error |-> r.error, subtasks |-> r.subtasks]

Direct(r) ==
  Outcome(BreakdownResponse(r.task_label, r.api_key, r.provider, r.dbOk,
                            callFn(upstream)))

C29_LoggingTransparent ==
  [][(last'.op = "breakdown" /\ last'.called) =>
       /\ Outcome(last') = Direct(last')
       /\ BreakdownStep => ai_logs' = ai_logs]_vars

\* a breakdown with logging whose provider call threw and whose log insert
\* failed: the request was answered with the provider's error, and the log
\* holds no row
C29_Witness ==
  /\ last.op = "breakdown" /\ last.called /\ last.enable_logging
  /\ last.status = 500 /\ last.error = UpstreamErrorText
  /\ logging = <<>> /\ ai_logs = <<>>

\* C30: in sequential execution, after any history of creates, deletes and
\* position updates, the position a created task is given is strictly
\* greater than the position of every sibling there is (the tasks of the
\* same parent or, for a task without parent, the parentless tasks of the
\* same project), so that it is the last of its sibling list in the next
\* get-task-tree.
Lists(tree) == {tree.roots} \cup {tree.children[i] : i \in DOMAIN tree.children}

C30_CreatedLast ==
  (last.op = "createTask" /\ last.status = 201) =>
    /\ \A i \in Siblings(prev.tasks, last.body.project_id, last.body.parent_id) :
         prev.tasks[i].position < tasks[last.id].position
    /\ \A P \in DOMAIN projects :
         \A rows \in OrderedRows(tasks, TaskTreeRows(tasks, P)) :
           \A list \in Lists(BuildTree(tasks, rows)) :
             last.id \in SeqSet(list) => list[Len(list)] = last.id

\* a task created beside a sibling that an update had moved on, so that its
\* position is not the number of its siblings
C30_Witness ==
  /\ last.op = "createTask" /\ last.status = 201
  /\ LET sibs == Siblings(prev.tasks, last.body.project_id, last.body.parent_id)
     IN  /\ sibs # {}
         /\ tasks[last.id].position > Cardinality(sibs)
  /\ \E rows \in OrderedRows(tasks, TaskTreeRows(tasks, 1)) :
       \E list \in Lists(BuildTree(tasks, rows)) :
         Len(list) = 2 /\ list[2] = last.id

====
